---------------------------- MODULE Spec2Model ----------------------------
(***************************************************************************)
(* A model of lib/lnbase.py (Electrum's Lightning peer): the BOLT 8        *)
(* encrypted transport (nonce counters, key rotation, framing) and the     *)
(* peer engine's channel lifecycle flows.                                  *)
(*                                                                         *)
(* Cryptography is symbolic: a key or digest is a sequence of naturals and *)
(* HMAC is an injective encoding of its two arguments, so two keys are     *)
(* equal only when they were derived the same way.                         *)
(***************************************************************************)
EXTENDS Integers, Sequences, FiniteSets, TLC

VARIABLES
    \* ---- transport keys (Peer.handshake, Peer.sn, Peer.rn)
    _sn, _rn, sk, rk, s_ck, r_ck,
    \* ---- inbound byte stream and Peer.read_message
    read_buffer,   \* Peer.read_buffer: bytes received and not yet consumed
    inflight,      \* bytes the counterparty has written and reader.read has not returned yet
    eof,           \* the counterparty closed the stream
    wire,          \* the frames the counterparty has encrypted, in order
    peer_tx,       \* the counterparty's sending state [n, k, ck] (our receiving direction)
    read_pc,       \* "idle" | "awaiting" | "closed" | "invalid_tag"
    read_locals,   \* rn_l, rk_l, rn_m, rk_m of the running read_message
    received,      \* messages returned by read_message, in order
    written,       \* frames handed to writer.write, in order
    \* ---- history of AEAD operations
    aead_ops,      \* per direction, the operations [key, nonce, data] in order
                   \* (an operation run again at once on the same data is not appended)
    aead_repeat,   \* the operations that were run again on the same data
    calls,         \* per direction, the number of sn() / rn() calls made
    \* ---- the dispatch loop (Peer.main_loop) and the event loop
    initialized,   \* Peer.initialized is done
    loop_stopped,  \* aiosafe caught an exception and stopped the event loop
    main_pc,       \* "read_init" | "loop" | "dead"
    inbound_n,     \* messages dispatched so far
    main_msg,      \* the message main_loop dispatched last
    \* ---- pending exchanges of the open flow
    channel_accepted,  \* Peer.channel_accepted: key -> queued payloads
    funding_signed,    \* Peer.funding_signed: key -> queued payloads
    \* ---- Peer.channel_establishment_flow
    open_pc,       \* "start" | "await_accept" | "await_funding_signed" | "done" | "failed"
    open_args,     \* funding_sat, push_msat, temp_channel_id
    open_locals,   \* funding_tx, channel_id, m (the HTLCStateMachine returned)
    wallet_txs,    \* the funding transactions wallet.mktx was asked for
    broadcasts,    \* the transactions handed to network.broadcast_transaction
    \* ---- channels and their lifecycle
    channels,      \* lnworker.channels: channel_id -> channel record
    channel_state, \* lnworker.channel_state: channel_id -> lifecycle tag
    saved,         \* channel_id -> the record lnworker.save_channel stored last
    channel_db,    \* the short channel ids mark_open handed to the channel database
    channel_reestablished,  \* Peer.channel_reestablished: key -> the future is done
    reest_pc,      \* Peer.reestablish_channel: "idle" | "start" | "await" | "done"
    reest_suspended,  \* reestablish_channel had to wait for the future
    fl_calls,      \* calls of Peer.funding_locked so far
    \* ---- the pay flow
    revoke_and_ack,       \* Peer.revoke_and_ack: channel_id -> queue
    commitment_signed,    \* Peer.commitment_signed: channel_id -> queue
    update_fulfill_htlc,  \* Peer.update_fulfill_htlc: channel_id -> queue
    update_fail_htlc,     \* Peer.update_fail_htlc: channel_id -> queue
    attempted_route,      \* Peer.attempted_route: <<channel_id, htlc_id>> -> route
    blacklist,            \* network.path_finder.blacklist
    pay_pc,               \* Peer.pay: the await it is suspended at
    pay_args,             \* Peer.pay: its arguments
    fulfill_coro,         \* Peer.pay: the task getting from update_fulfill_htlc
    failure_coro,         \* Peer.pay: the task getting from update_fail_htlc
    engine_log,           \* the calls made on the channel's HTLCStateMachine
    \* ---- the flow for a received htlc
    rcra_pc,              \* Peer.receive_commitment_revoke_ack: the await it is at
    rcra_locals,          \* its htlc, the expected msat, the commitments it took
    \* ---- the announcement of a channel
    announcement_signatures,  \* Peer.announcement_signatures: channel_id -> queue
    ann_pc,               \* Peer.handle_announcements: the await it is at
    node_ids,             \* <<our node id, the counterparty's node id (Peer.pubkey)>>
    handler_locals,       \* the payload and the local_state a handler read and has
                          \* not written back yet (0: no handler is in between)
    \* ---- the clock and the ping
    now,                  \* time.time(), in seconds
    ping_time,            \* Peer.ping_time
    sent_at               \* time.time() at each send_message so far, in order

transportVars == <<_sn, _rn, sk, rk, s_ck, r_ck, read_buffer, inflight, eof, wire,
                   peer_tx, read_pc, read_locals, received, written,
                   aead_ops, aead_repeat, calls>>

loopVars == <<initialized, loop_stopped, main_pc, inbound_n, main_msg>>

openVars == <<channel_accepted, funding_signed, open_pc, open_args, open_locals,
              wallet_txs, broadcasts>>

chanVars == <<channels, channel_state, saved, channel_db, channel_reestablished,
              reest_pc, reest_suspended, fl_calls>>

payVars == <<revoke_and_ack, commitment_signed, update_fulfill_htlc, update_fail_htlc,
             attempted_route, blacklist, pay_pc, pay_args, fulfill_coro, failure_coro,
             engine_log>>

recvVars == <<rcra_pc, rcra_locals>>

annVars == <<announcement_signatures, ann_pc, node_ids, handler_locals>>

pingVars == <<now, ping_time, sent_at>>

sideVars == <<recvVars, annVars, pingVars>>

engineVars == <<loopVars, openVars, chanVars, payVars, sideVars>>

vars == <<transportVars, engineVars>>

-----------------------------------------------------------------------------
(* Bounds of the model *)

\* messages sent in each direction in one behaviour
MaxMsgs == 3
\* messages already exchanged in a session that starts near a rotation,
\* counted back from the rotation
StartBack == 2
\* largest payload length of an inbound message
MaxPayload == 2

\* messages the dispatch loop processes in one behaviour
MaxInbound == 4
\* largest funding_sat an open is called with
MaxFundingSat == 2

(* Program constants *)

\* Peer.sn / Peer.rn: the counter value at which a direction rotates
RotateAt == 1000
\* read_message: the encrypted length frame (2 bytes + 16 byte tag)
LenFrame == 18
\* AEAD tag length
TagLen == 16
\* reader.read(2**10)
ReadMax == 1024

-----------------------------------------------------------------------------
(* Symbolic cryptography *)

\* hmac.new(key, msg, sha256).digest(): an injective pairing
Hmac(key, msg) == <<Len(key)>> \o key \o msg

\* get_bolt8_hkdf(salt, ikm): extract, then expand to two halves
get_bolt8_hkdf(salt, ikm) ==
    LET prk == Hmac(salt, ikm)
        T1  == Hmac(prk, <<1>>)
        T2  == Hmac(prk, T1 \o <<2>>)
    IN  <<T1, T2>>

\* the chaining key the handshake ends with (hs.ck after act 3)
HandshakeCk == <<0>>


\* the outcome of a failed aead_decrypt (cryptography's InvalidTag)
InvalidTag == <<-1>>

-----------------------------------------------------------------------------
(* Nonce counters and key rotation *)

\* sn() rotating one call early, when the counter reaches 999
sn_one_early(n, k, ck) ==
    IF n + 1 = RotateAt - 1
    THEN LET h == get_bolt8_hkdf(ck, k)
         IN  [o |-> n, n |-> 0, ck |-> h[1], k |-> h[2]]
    ELSE [o |-> n, n |-> n + 1, ck |-> ck, k |-> k]

\* Peer.sn(): o is the nonce returned; n, k, ck are _sn, sk, s_ck after the call
sn(n, k, ck) ==
    IF n + 1 = RotateAt
    THEN LET h == get_bolt8_hkdf(ck, k)
         IN  [o |-> n, n |-> 0, ck |-> h[1], k |-> h[2]]
    ELSE [o |-> n, n |-> n + 1, ck |-> ck, k |-> k]

\* rn() with the two halves of the HKDF output taken the other way round
rn_swapped(n, k, ck) ==
    IF n + 1 = RotateAt
    THEN LET h == get_bolt8_hkdf(ck, k)
         IN  [o |-> n, ok |-> k, n |-> 0, ck |-> h[2], k |-> h[1]]
    ELSE [o |-> n, ok |-> k, n |-> n + 1, ck |-> ck, k |-> k]

\* Peer.rn(): o, ok are the (nonce, key) pair returned; n, k, ck are _rn, rk,
\* r_ck after the call
rn(n, k, ck) ==
    IF n + 1 = RotateAt
    THEN LET h == get_bolt8_hkdf(ck, k)
         IN  [o |-> n, ok |-> k, n |-> 0, ck |-> h[1], k |-> h[2]]
    ELSE [o |-> n, ok |-> k, n |-> n + 1, ck |-> ck, k |-> k]

\* the counter values a session is observed from: right after the handshake,
\* or StartBack messages before a rotation
StartCounters == {0, RotateAt - 2 * StartBack}

\* Peer.handshake, lines 372-379: the transport keys it installs
HandshakeKeys == get_bolt8_hkdf(HandshakeCk, <<>>)


\* the state Peer.handshake leaves, seen after s0 sn() calls and r0 rn() calls
\* that did not reach a rotation
TransportInit(s0, r0) ==
    /\ _sn = s0
    /\ _rn = r0
    /\ sk = HandshakeKeys[1]
    /\ rk = HandshakeKeys[2]
    /\ s_ck = HandshakeCk
    /\ r_ck = HandshakeCk
    /\ read_buffer = <<>>
    /\ inflight = <<>>
    /\ eof = FALSE
    /\ wire = <<>>
    /\ peer_tx = [n |-> r0, k |-> HandshakeKeys[2], ck |-> HandshakeCk]
    /\ read_pc = "idle"
    /\ read_locals = [rn_l |-> 0, rk_l |-> <<>>, rn_m |-> 0, rk_m |-> <<>>]
    /\ received = <<>>
    /\ written = <<>>
    /\ aead_ops = [send |-> <<>>, recv |-> <<>>]
    /\ aead_repeat = {}
    /\ calls = [send |-> 0, recv |-> 0]

\* a dictionary of queues with no key yet (defaultdict(asyncio.Queue))
NoQueues == <<>>

\* no open flow
OpenIdle ==
    /\ channel_accepted = NoQueues
    /\ funding_signed = NoQueues
    /\ open_pc = "idle"
    /\ open_args = [funding_sat |-> 0, push_msat |-> 0, temp_channel_id |-> 0]
    /\ open_locals = [error |-> "none"]
    /\ wallet_txs = <<>>
    /\ broadcasts = <<>>

\* no channel
ChanIdle ==
    /\ channels = <<>>
    /\ channel_state = <<>>
    /\ saved = <<>>
    /\ channel_db = {}
    /\ channel_reestablished = <<>>
    /\ reest_pc = "idle"
    /\ reest_suspended = FALSE
    /\ fl_calls = 0

\* the locals of a handler when no handler of the event loop is suspended
NoLocals == [handler |-> "none"]

\* no flow for a received htlc, no announcement, the clock at the start
SideIdle ==
    /\ rcra_pc = "idle"
    /\ rcra_locals = [htlc |-> 0, expected_received_msat |-> 0]
    /\ announcement_signatures = <<>>
    /\ ann_pc = "idle"
    /\ node_ids = <<1, 2>>
    /\ handler_locals = NoLocals
    /\ now = 0
    /\ ping_time = 0
    /\ sent_at = <<>>

\* a task that was not created
NoTask == [st |-> "none", result |-> 0]

\* no pay flow
PayIdle ==
    /\ revoke_and_ack = NoQueues
    /\ commitment_signed = NoQueues
    /\ update_fulfill_htlc = NoQueues
    /\ update_fail_htlc = NoQueues
    /\ attempted_route = <<>>
    /\ blacklist = {}
    /\ pay_pc = "idle"
    /\ pay_args = [amount_msat |-> 0, route |-> <<>>]
    /\ fulfill_coro = NoTask
    /\ failure_coro = NoTask
    /\ engine_log = <<>>

\* the engine before main_loop has read anything and with no flow started
EngineIdle ==
    /\ initialized = FALSE
    /\ loop_stopped = FALSE
    /\ main_pc = "read_init"
    /\ inbound_n = 0
    /\ main_msg = [type |-> "none"]
    /\ OpenIdle
    /\ ChanIdle
    /\ PayIdle
    /\ SideIdle

readVars == <<read_buffer, inflight, eof, wire, peer_tx, read_pc, read_locals, received>>

\* one call of self.sn() on its own
CallSn ==
    /\ calls.send < 2 * MaxMsgs
    /\ LET c == sn(_sn, sk, s_ck)
       IN  /\ _sn' = c.n
           /\ sk' = c.k
           /\ s_ck' = c.ck
    /\ calls' = [calls EXCEPT !.send = @ + 1]
    /\ UNCHANGED <<_rn, rk, r_ck, readVars, written, aead_ops, aead_repeat>>
    /\ UNCHANGED engineVars

\* one call of self.rn() on its own
CallRn ==
    /\ calls.recv < 2 * MaxMsgs
    /\ LET c == rn(_rn, rk, r_ck)
       IN  /\ _rn' = c.n
           /\ rk' = c.k
           /\ r_ck' = c.ck
    /\ calls' = [calls EXCEPT !.recv = @ + 1]
    /\ UNCHANGED <<_sn, sk, s_ck, readVars, written, aead_ops, aead_repeat>>
    /\ UNCHANGED engineVars

-----------------------------------------------------------------------------
(* Framing: Peer.send_message and Peer.read_message *)

\* the bytes of the f-th frame on the inbound wire
FrameBytes(f, size) == [i \in 1..size |-> <<f, i>>]

\* aead_decrypt(k, nonce, b'', data) on inbound bytes: the plaintext when data is
\* one whole untampered frame sealed under (k, nonce), InvalidTag otherwise
aead_decrypt(k, nonce, data) ==
    LET f == data[1][1]
    IN  IF /\ data = FrameBytes(f, wire[f].size)
           /\ wire[f].key = k
           /\ wire[f].nonce = nonce
           /\ wire[f].good
        THEN wire[f].pt
        ELSE InvalidTag

\* an AEAD operation on the receiving direction, as recorded in the history
RecvOp(k, nonce, data) == [key |-> k, nonce |-> nonce, data |-> data[1] \o <<Len(data)>>]

\* the history after operation op of direction dir
LogOp(h, dir, op) ==
    LET s == h.ops[dir]
    IN  IF Len(s) > 0 /\ s[Len(s)] = op
        THEN [h EXCEPT !.repeat = @ \cup {op}]
        ELSE [h EXCEPT !.ops[dir] = Append(s, op)]

\* the sending side of the transport, as send_message reads and writes it
SendState == [n |-> _sn, k |-> sk, ck |-> s_ck, written |-> written,
              ops |-> aead_ops.send, calls |-> calls.send]

\* send_message reading self.sk after the sn() call that yields the nonce
SendOne_key_after(st, msg) ==
    LET c1   == sn(st.n, st.k, st.ck)
        k_l  == c1.k
        c2   == sn(c1.n, c1.k, c1.ck)
        k_m  == c2.k
        nmsg == Len(st.written) + 1
        op_l == [key |-> k_l, nonce |-> c1.o, data |-> <<nmsg, 1>>]
        op_m == [key |-> k_m, nonce |-> c2.o, data |-> <<nmsg, 2>>]
    IN  [n |-> c2.n, k |-> c2.k, ck |-> c2.ck,
         written |-> Append(st.written, [lc |-> op_l, c |-> op_m, msg |-> msg]),
         ops |-> st.ops \o <<op_l, op_m>>,
         calls |-> st.calls + 2]

\* Peer.send_message(msg) on sending state st: two frames, each sealed under
\* the key read before the sn() call that yields its nonce
SendOne(st, msg) ==
    LET k_l  == st.k
        c1   == sn(st.n, st.k, st.ck)
        k_m  == c1.k
        c2   == sn(c1.n, c1.k, c1.ck)
        nmsg == Len(st.written) + 1
        op_l == [key |-> k_l, nonce |-> c1.o, data |-> <<nmsg, 1>>]
        op_m == [key |-> k_m, nonce |-> c2.o, data |-> <<nmsg, 2>>]
    IN  [n |-> c2.n, k |-> c2.k, ck |-> c2.ck,
         written |-> Append(st.written, [lc |-> op_l, c |-> op_m, msg |-> msg]),
         ops |-> st.ops \o <<op_l, op_m>>,
         calls |-> st.calls + 2]

RECURSIVE SendAll(_, _)
\* send_message called on each message of msgs in turn
SendAll(st, msgs) ==
    IF msgs = <<>> THEN st ELSE SendAll(SendOne(st, Head(msgs)), Tail(msgs))

\* the messages of msgs are sent, in order, without the flow suspending
send_messages(msgs) ==
    LET st == SendAll(SendState, msgs)
    IN  /\ _sn' = st.n
        /\ sk' = st.k
        /\ s_ck' = st.ck
        /\ written' = st.written
        /\ aead_ops' = [aead_ops EXCEPT !.send = st.ops]
        /\ calls' = [calls EXCEPT !.send = st.calls]

\* Peer.send_message(msg)
send_message(msg) == send_messages(<<msg>>)

\* what the receiving side of the transport holds
rxVars == <<_rn, rk, r_ck, read_buffer, inflight, eof, wire, peer_tx, read_pc,
            read_locals, received, aead_repeat>>

\* read_message emptying the buffer when it returns a message
ReadLoop_drop_rest(buf, loc) ==
    LET h0 == [ops |-> aead_ops, repeat |-> aead_repeat]
    IN
    IF Len(buf) >= LenFrame
    THEN LET lc == SubSeq(buf, 1, LenFrame)
             l  == aead_decrypt(loc.rk_l, loc.rn_l, lc)
             h1 == LogOp(h0, "recv", RecvOp(loc.rk_l, loc.rn_l, lc))
         IN  IF l = InvalidTag
             THEN /\ read_pc' = "invalid_tag"
                  /\ read_buffer' = buf
                  /\ received' = received
                  /\ aead_ops' = h1.ops
                  /\ aead_repeat' = h1.repeat
             ELSE LET offset == LenFrame + l[1] + TagLen
                  IN  IF Len(buf) >= offset
                      THEN LET c   == SubSeq(buf, LenFrame + 1, offset)
                               msg == aead_decrypt(loc.rk_m, loc.rn_m, c)
                               h2  == LogOp(h1, "recv", RecvOp(loc.rk_m, loc.rn_m, c))
                           IN  /\ read_buffer' = <<>>
                               /\ aead_ops' = h2.ops
                               /\ aead_repeat' = h2.repeat
                               /\ IF msg = InvalidTag
                                  THEN read_pc' = "invalid_tag" /\ received' = received
                                  ELSE read_pc' = "idle" /\ received' = Append(received, msg)
                      ELSE /\ read_pc' = "awaiting"
                           /\ read_buffer' = buf
                           /\ received' = received
                           /\ aead_ops' = h1.ops
                           /\ aead_repeat' = h1.repeat
    ELSE /\ read_pc' = "awaiting"
         /\ read_buffer' = buf
         /\ received' = received
         /\ UNCHANGED <<aead_ops, aead_repeat>>

\* read_message, lines 331-345: the while loop from its top to the return, the
\* raise or the await of reader.read, on buffer buf
ReadLoop(buf, loc) ==
    LET h0 == [ops |-> aead_ops, repeat |-> aead_repeat]
    IN
    IF Len(buf) >= LenFrame
    THEN LET lc == SubSeq(buf, 1, LenFrame)
             l  == aead_decrypt(loc.rk_l, loc.rn_l, lc)
             h1 == LogOp(h0, "recv", RecvOp(loc.rk_l, loc.rn_l, lc))
         IN  IF l = InvalidTag
             THEN /\ read_pc' = "invalid_tag"
                  /\ read_buffer' = buf
                  /\ received' = received
                  /\ aead_ops' = h1.ops
                  /\ aead_repeat' = h1.repeat
             ELSE LET offset == LenFrame + l[1] + TagLen
                  IN  IF Len(buf) >= offset
                      THEN LET c   == SubSeq(buf, LenFrame + 1, offset)
                               msg == aead_decrypt(loc.rk_m, loc.rn_m, c)
                               h2  == LogOp(h1, "recv", RecvOp(loc.rk_m, loc.rn_m, c))
                           IN  /\ read_buffer' = SubSeq(buf, offset + 1, Len(buf))
                               /\ aead_ops' = h2.ops
                               /\ aead_repeat' = h2.repeat
                               /\ IF msg = InvalidTag
                                  THEN read_pc' = "invalid_tag" /\ received' = received
                                  ELSE read_pc' = "idle" /\ received' = Append(received, msg)
                      ELSE /\ read_pc' = "awaiting"
                           /\ read_buffer' = buf
                           /\ received' = received
                           /\ aead_ops' = h1.ops
                           /\ aead_repeat' = h1.repeat
    ELSE /\ read_pc' = "awaiting"
         /\ read_buffer' = buf
         /\ received' = received
         /\ UNCHANGED <<aead_ops, aead_repeat>>

\* Peer.read_message is called: both nonces are drawn first (lines 329-330)
read_message ==
    /\ read_pc = "idle"
    /\ calls.recv < 2 * MaxMsgs
    /\ LET c1  == rn(_rn, rk, r_ck)
           c2  == rn(c1.n, c1.k, c1.ck)
           loc == [rn_l |-> c1.o, rk_l |-> c1.ok, rn_m |-> c2.o, rk_m |-> c2.ok]
       IN  /\ _rn' = c2.n
           /\ rk' = c2.k
           /\ r_ck' = c2.ck
           /\ read_locals' = loc
           /\ ReadLoop(read_buffer, loc)
    /\ calls' = [calls EXCEPT !.recv = @ + 2]
    /\ UNCHANGED <<_sn, sk, s_ck, inflight, eof, wire, peer_tx, written>>
    /\ UNCHANGED engineVars

\* the sizes of the chunks reader.read returns here: half a length frame, a whole
\* one, or all that has arrived
ChunkSizes(avail) == {LenFrame \div 2, LenFrame, avail}

\* await self.reader.read(2**10) returns n bytes (line 342) and the loop goes round
ReaderRead(n) ==
    /\ read_pc = "awaiting"
    /\ n >= 1
    /\ n <= ReadMax
    /\ n <= Len(inflight)
    /\ inflight' = SubSeq(inflight, n + 1, Len(inflight))
    /\ ReadLoop(read_buffer \o SubSeq(inflight, 1, n), read_locals)
    /\ UNCHANGED <<_sn, _rn, sk, rk, s_ck, r_ck, eof, wire, peer_tx, read_locals,
                   written, calls>>
    /\ UNCHANGED engineVars

\* reader.read returns b'' at the end of the stream (lines 343-344)
ReaderEof ==
    /\ read_pc = "awaiting"
    /\ inflight = <<>>
    /\ eof
    /\ read_pc' = "closed"
    /\ UNCHANGED <<_sn, _rn, sk, rk, s_ck, r_ck, read_buffer, inflight, eof, wire,
                   peer_tx, read_locals, received, written, aead_ops, aead_repeat, calls>>
    /\ UNCHANGED engineVars

\* a flow or the dispatch loop sends a message
SendAny ==
    /\ Len(written) < MaxMsgs
    /\ send_message(<<Len(written) + 1>>)
    /\ UNCHANGED <<_rn, rk, r_ck, readVars, aead_repeat>>
    /\ UNCHANGED engineVars

\* the counterparty writes one message of payload length L, framed and keyed as
\* BOLT 8 prescribes; tamper names the frame (1, 2) altered in transit, 0 for none
\* (what follows an altered frame is never decrypted, so nothing is sent after it)
RemoteSend(L, tamper) ==
    /\ ~eof
    /\ Len(wire) < 2 * MaxMsgs
    /\ \A f \in DOMAIN wire : wire[f].good
    /\ LET c1 == sn(peer_tx.n, peer_tx.k, peer_tx.ck)
           c2 == sn(c1.n, c1.k, c1.ck)
           f  == Len(wire)
           fl == [key |-> peer_tx.k, nonce |-> c1.o, pt |-> <<L>>,
                  size |-> LenFrame, good |-> tamper # 1]
           fm == [key |-> c1.k, nonce |-> c2.o, pt |-> [i \in 1..L |-> f \div 2 + 1],
                  size |-> L + TagLen, good |-> tamper # 2]
       IN  /\ wire' = wire \o <<fl, fm>>
           /\ inflight' = inflight \o FrameBytes(f + 1, LenFrame)
                                   \o FrameBytes(f + 2, L + TagLen)
           /\ peer_tx' = [n |-> c2.n, k |-> c2.k, ck |-> c2.ck]
    /\ UNCHANGED <<_sn, _rn, sk, rk, s_ck, r_ck, read_buffer, eof, read_pc, read_locals,
                   received, written, aead_ops, aead_repeat, calls>>
    /\ UNCHANGED engineVars

\* the counterparty closes the stream
RemoteClose ==
    /\ ~eof
    /\ eof' = TRUE
    /\ UNCHANGED <<_sn, _rn, sk, rk, s_ck, r_ck, read_buffer, inflight, wire, peer_tx,
                   read_pc, read_locals, received, written, aead_ops, aead_repeat, calls>>
    /\ UNCHANGED engineVars

\* the connection breaks: of the bytes in flight only the first n arrive, then
\* the stream ends
StreamCut(n) ==
    /\ ~eof
    /\ n < Len(inflight)
    /\ eof' = TRUE
    /\ inflight' = SubSeq(inflight, 1, n)
    /\ UNCHANGED <<_sn, _rn, sk, rk, s_ck, r_ck, read_buffer, wire, peer_tx,
                   read_pc, read_locals, received, written, aead_ops, aead_repeat, calls>>
    /\ UNCHANGED engineVars

-----------------------------------------------------------------------------
(* Pending-exchange queues: defaultdict(asyncio.Queue) *)

\* d[key] is evaluated: a missing key gets an empty queue
Touch(d, key) == IF key \in DOMAIN d THEN d ELSE d @@ (key :> <<>>)

\* d[key].put_nowait(x)
Put(d, key, x) == [Touch(d, key) EXCEPT ![key] = Append(@, x)]

\* d[key].get() can return without waiting
CanGet(d, key) == key \in DOMAIN d /\ d[key] # <<>>

\* d after d[key].get() returned Head(d[key])
Pop(d, key) == [d EXCEPT ![key] = Tail(@)]

-----------------------------------------------------------------------------
(* The dispatch loop: Peer.main_loop and Peer.process_message *)

\* main_loop can read and dispatch one more message
CanDispatch ==
    /\ ~loop_stopped
    /\ main_pc # "dead"
    /\ inbound_n < MaxInbound

\* main_loop after process_message(msg): aiosafe stops the event loop when the
\* handler raised; otherwise initialized is set after the first message and the
\* loop goes on to the next read
Dispatched(msg, raised) ==
    /\ inbound_n' = inbound_n + 1
    /\ main_msg' = msg
    /\ IF raised
       THEN /\ loop_stopped' = TRUE
            /\ main_pc' = "dead"
            /\ initialized' = initialized
       ELSE /\ loop_stopped' = loop_stopped
            /\ main_pc' = "loop"
            /\ initialized' = TRUE

\* Peer.on_init: pass
RecvInit ==
    /\ CanDispatch
    /\ Dispatched([type |-> "init"], FALSE)
    /\ UNCHANGED <<transportVars, openVars, chanVars, payVars, sideVars>>

\* Peer.on_accept_channel(payload)
RecvAcceptChannel(payload) ==
    /\ CanDispatch
    /\ LET temp_chan_id == payload.temporary_channel_id
       IN  IF temp_chan_id \notin DOMAIN channel_accepted
           THEN Dispatched(payload, TRUE) /\ UNCHANGED channel_accepted
           ELSE /\ Dispatched(payload, FALSE)
                /\ channel_accepted' = Put(channel_accepted, temp_chan_id, payload)
    /\ UNCHANGED <<transportVars, funding_signed, open_pc, open_args, open_locals,
                   wallet_txs, broadcasts, chanVars, payVars, sideVars>>

\* Peer.on_funding_signed(payload)
RecvFundingSigned(payload) ==
    /\ CanDispatch
    /\ LET channel_id == payload.channel_id
       IN  IF channel_id \notin DOMAIN funding_signed
           THEN Dispatched(payload, TRUE) /\ UNCHANGED funding_signed
           ELSE /\ Dispatched(payload, FALSE)
                /\ funding_signed' = Put(funding_signed, channel_id, payload)
    /\ UNCHANGED <<transportVars, channel_accepted, open_pc, open_args, open_locals,
                   wallet_txs, broadcasts, chanVars, payVars, sideVars>>

-----------------------------------------------------------------------------
(* The open flow: Peer.channel_establishment_flow *)

RECURSIVE Xor(_, _)
\* a ^ b on naturals
Xor(a, b) ==
    IF a = 0 THEN b
    ELSE IF b = 0 THEN a
    ELSE 2 * Xor(a \div 2, b \div 2) + ((a + b) % 2)

\* channel_id_from_funding_tx: funding_txid stands for the integer its reversed
\* bytes encode
channel_id_from_funding_tx(funding_txid, funding_index) == Xor(funding_txid, funding_index)

\* the bounds of the accept_channel sanity checks (lines 566-568)
DustLimitBound == 600
HtlcMinimumBound == 600000
MaxInFlightFloor == 198000000

\* the three asserts on the remote's accept_channel, with dust limit <= 600
AcceptSane_dust_le(payload) ==
    /\ payload.dust_limit_satoshis <= DustLimitBound
    /\ payload.htlc_minimum_msat < HtlcMinimumBound
    /\ payload.max_htlc_value_in_flight_msat >= MaxInFlightFloor

\* the three asserts on the remote's accept_channel (lines 566-568)
AcceptSane(payload) ==
    /\ payload.dust_limit_satoshis < DustLimitBound
    /\ payload.htlc_minimum_msat < HtlcMinimumBound
    /\ payload.max_htlc_value_in_flight_msat >= MaxInFlightFloor

\* the channel record of lines 584-611, as HTLCStateMachine(chan) holds it
NewChannel(args, payload, tx) ==
    [ channel_id |-> channel_id_from_funding_tx(tx.txid, tx.index),
      short_channel_id |-> 0,
      funding_outpoint |-> <<tx.txid, tx.index>>,
      remote_config |-> [dust_limit_sat |-> payload.dust_limit_satoshis,
                         max_htlc_value_in_flight_msat |->
                             payload.max_htlc_value_in_flight_msat],
      remote_state |-> [ctn |-> -1,
                        next_per_commitment_point |-> payload.first_per_commitment_point,
                        current_per_commitment_point |-> 0,
                        amount_msat |-> args.push_msat,
                        next_htlc_id |-> 0,
                        feerate |-> 20000],
      local_state |-> [ctn |-> -1,
                       amount_msat |-> args.funding_sat * 1000 - args.push_msat,
                       next_htlc_id |-> 0,
                       funding_locked_received |-> FALSE,
                       was_announced |-> FALSE,
                       current_commitment_signature |-> 0,
                       feerate |-> 20000],
      constraints |-> [capacity |-> args.funding_sat,
                       is_initiator |-> TRUE,
                       funding_txn_minimum_depth |-> payload.minimum_depth] ]

\* HTLCStateMachine.receive_new_commitment(sig, []) accepts the signature
\* (signatures 1 and 2 verify against the commitment, any other does not)
SigAccepted(sig) == sig \in {1, 2}

\* aiosafe: the flow raised
OpenFails(why) ==
    /\ open_pc' = "failed"
    /\ open_locals' = [open_locals EXCEPT !.error = why]
    /\ loop_stopped' = TRUE

\* lines 500-552: await initialized, send open_channel, wait for accept_channel
OpenStart ==
    /\ ~loop_stopped
    /\ open_pc = "start"
    /\ initialized
    /\ send_message([type |-> "open_channel",
                     temporary_channel_id |-> open_args.temp_channel_id,
                     funding_satoshis |-> open_args.funding_sat,
                     push_msat |-> open_args.push_msat])
    /\ channel_accepted' = Touch(channel_accepted, open_args.temp_channel_id)
    /\ open_pc' = "await_accept"
    /\ UNCHANGED <<rxVars, loopVars, funding_signed, open_args, open_locals,
                   wallet_txs, broadcasts, chanVars, payVars, sideVars>>

\* lines 552-619: accept_channel arrived; check it, have the wallet build the
\* funding transaction, build the channel record, send funding_created and wait
\* for funding_signed. tx is what wallet.mktx answers.
OpenAccepted(tx) ==
    /\ ~loop_stopped
    /\ open_pc = "await_accept"
    /\ CanGet(channel_accepted, open_args.temp_channel_id)
    /\ LET payload == Head(channel_accepted[open_args.temp_channel_id])
           chan    == NewChannel(open_args, payload, tx)
       IN  /\ channel_accepted' = Pop(channel_accepted, open_args.temp_channel_id)
           /\ IF ~AcceptSane(payload)
              THEN /\ OpenFails("sanity")
                   /\ UNCHANGED <<transportVars, funding_signed, wallet_txs, sideVars>>
              ELSE /\ wallet_txs' = Append(wallet_txs, open_args.funding_sat)
                   /\ IF ~tx.ok
                      THEN /\ OpenFails("mktx")
                           /\ UNCHANGED <<transportVars, funding_signed, sideVars>>
                      ELSE /\ send_message([type |-> "funding_created",
                                            temporary_channel_id |->
                                                open_args.temp_channel_id,
                                            funding_txid |-> tx.txid,
                                            funding_output_index |-> tx.index])
                           /\ funding_signed' = Touch(funding_signed, chan.channel_id)
                           /\ open_locals' = [funding_tx |-> tx,
                                              channel_id |-> chan.channel_id,
                                              m |-> chan, remote_sig |-> 0,
                                              error |-> "none"]
                           /\ open_pc' = "await_funding_signed"
                           /\ UNCHANGED <<rxVars, loop_stopped, sideVars>>
    /\ UNCHANGED <<initialized, main_pc, inbound_n, main_msg, open_args, broadcasts,
                   chanVars, payVars>>

\* lines 619-628 with the broadcast moved before receive_new_commitment
OpenFundingSigned_broadcast_first(success) ==
    /\ ~loop_stopped
    /\ open_pc = "await_funding_signed"
    /\ CanGet(funding_signed, open_locals.channel_id)
    /\ LET payload    == Head(funding_signed[open_locals.channel_id])
           remote_sig == payload.signature
           m          == open_locals.m
       IN  /\ funding_signed' = Pop(funding_signed, open_locals.channel_id)
           /\ broadcasts' = Append(broadcasts, open_locals.funding_tx)
           /\ IF ~SigAccepted(remote_sig)
              THEN OpenFails("bad_sig")
              ELSE IF ~success
                   THEN OpenFails("broadcast")
                   ELSE /\ open_locals' =
                              [open_locals EXCEPT
                                 !.remote_sig = remote_sig,
                                 !.m = [m EXCEPT
                                          !.remote_state.ctn = 0,
                                          !.local_state.ctn = 0,
                                          !.local_state.current_commitment_signature =
                                              remote_sig]]
                        /\ open_pc' = "done"
                        /\ UNCHANGED loop_stopped
    /\ UNCHANGED <<transportVars, initialized, main_pc, inbound_n, main_msg,
                   channel_accepted, open_args, wallet_txs, chanVars, payVars, sideVars>>

\* lines 619-628 without line 626 (the remote ctn is left at -1)
OpenFundingSigned_no_remote_ctn(success) ==
    /\ ~loop_stopped
    /\ open_pc = "await_funding_signed"
    /\ CanGet(funding_signed, open_locals.channel_id)
    /\ LET payload    == Head(funding_signed[open_locals.channel_id])
           remote_sig == payload.signature
           m          == open_locals.m
       IN  /\ funding_signed' = Pop(funding_signed, open_locals.channel_id)
           /\ IF ~SigAccepted(remote_sig)
              THEN OpenFails("bad_sig") /\ UNCHANGED broadcasts
              ELSE /\ broadcasts' = Append(broadcasts, open_locals.funding_tx)
                   /\ IF ~success
                      THEN OpenFails("broadcast")
                      ELSE /\ open_locals' =
                                 [open_locals EXCEPT
                                    !.remote_sig = remote_sig,
                                    !.m = [m EXCEPT
                                             !.local_state.ctn = 0,
                                             !.local_state.current_commitment_signature =
                                                 remote_sig]]
                           /\ open_pc' = "done"
                           /\ UNCHANGED loop_stopped
    /\ UNCHANGED <<transportVars, initialized, main_pc, inbound_n, main_msg,
                   channel_accepted, open_args, wallet_txs, chanVars, payVars, sideVars>>

\* lines 619-628: funding_signed arrived; the commitment engine validates the
\* signature (and raises when it does not verify), the funding transaction is
\* broadcast, both ctn become 0 and the local state keeps the signature.
\* success is what network.broadcast_transaction answers.
OpenFundingSigned(success) ==
    /\ ~loop_stopped
    /\ open_pc = "await_funding_signed"
    /\ CanGet(funding_signed, open_locals.channel_id)
    /\ LET payload    == Head(funding_signed[open_locals.channel_id])
           remote_sig == payload.signature
           m          == open_locals.m
       IN  /\ funding_signed' = Pop(funding_signed, open_locals.channel_id)
           /\ IF ~SigAccepted(remote_sig)
              THEN OpenFails("bad_sig") /\ UNCHANGED broadcasts
              ELSE /\ broadcasts' = Append(broadcasts, open_locals.funding_tx)
                   /\ IF ~success
                      THEN OpenFails("broadcast")
                      ELSE /\ open_locals' =
                                 [open_locals EXCEPT
                                    !.remote_sig = remote_sig,
                                    !.m = [m EXCEPT
                                             !.remote_state.ctn = 0,
                                             !.local_state.ctn = 0,
                                             !.local_state.current_commitment_signature =
                                                 remote_sig]]
                           /\ open_pc' = "done"
                           /\ UNCHANGED loop_stopped
    /\ UNCHANGED <<transportVars, initialized, main_pc, inbound_n, main_msg,
                   channel_accepted, open_args, wallet_txs, chanVars, payVars, sideVars>>

\* the temporary channel ids seen on the wire: 1 is the open flow's
TempIds == {1, 2}

\* the accept_channel payloads the counterparty may send: every check at its
\* boundary value, passing and failing
AcceptPayloads ==
    { [type |-> "accept_channel",
       temporary_channel_id |-> t,
       dust_limit_satoshis |-> c[1],
       htlc_minimum_msat |-> c[2],
       max_htlc_value_in_flight_msat |-> c[3],
       minimum_depth |-> 3,
       first_per_commitment_point |-> 7] :
      t \in TempIds,
      c \in { <<DustLimitBound - 1, HtlcMinimumBound - 1, MaxInFlightFloor>>,
              <<DustLimitBound, HtlcMinimumBound - 1, MaxInFlightFloor>>,
              <<DustLimitBound - 1, HtlcMinimumBound, MaxInFlightFloor>>,
              <<DustLimitBound - 1, HtlcMinimumBound - 1, MaxInFlightFloor - 1>> } }

\* what wallet.mktx may answer: a transaction (its txid, and the index of the
\* funding output in it), or an exception
WalletAnswers ==
    { [ok |-> TRUE, txid |-> 4, index |-> 0],
      [ok |-> TRUE, txid |-> 4, index |-> 1],
      [ok |-> FALSE, txid |-> 0, index |-> 0] }

\* the funding_signed payloads the counterparty may send
FundingSignedPayloads ==
    { [type |-> "funding_signed", channel_id |-> c, signature |-> g] :
      c \in {4, 5}, g \in {1, 2, 3} }

-----------------------------------------------------------------------------
(* Specifications *)

InitNonce ==
    /\ \E s0 \in StartCounters, r0 \in StartCounters : TransportInit(s0, r0)
    /\ EngineIdle

NextNonce == CallSn \/ CallRn

\* sn() and rn() called in any order
SpecNonce == InitNonce /\ [][NextNonce]_vars

InitTransport ==
    /\ \E c \in StartCounters : TransportInit(c, c)
    /\ EngineIdle

NextTransport ==
    \/ SendAny
    \/ read_message
    \/ \E n \in ChunkSizes(Len(inflight)) : ReaderRead(n)
    \/ ReaderEof
    \/ \E L \in 2..MaxPayload, t \in 0..2 : RemoteSend(L, t)
    \/ RemoteClose
    \/ \E n \in {LenFrame \div 2, LenFrame + 1} : StreamCut(n)

\* messages sent and read over the encrypted transport
SpecTransport == InitTransport /\ [][NextTransport]_vars


-----------------------------------------------------------------------------
(* Claims about the transport *)

\* what one sn() / rn() call does to a direction's (counter, key, chain)
RotationStep(n, k, ck, n2, k2, ck2) ==
    IF n = RotateAt - 1
    THEN /\ n2 = 0
         /\ ck2 = get_bolt8_hkdf(ck, k)[1]
         /\ k2 = get_bolt8_hkdf(ck, k)[2]
    ELSE /\ n2 = n + 1
         /\ k2 = k
         /\ ck2 = ck

\* C1: each direction's counter stays in 0..999; the call that brings a counter
\* to 1000 replaces that direction's chaining key and key by the first and
\* second halves of HKDF(chain, key) and resets the counter to 0; no other call
\* changes a key or a chaining key, and a call on one direction leaves the
\* other direction's counter, key and chaining key alone.
C1_RotationPerDirection ==
    /\ [](_sn \in 0..(RotateAt - 1) /\ _rn \in 0..(RotateAt - 1))
    /\ [][ /\ calls'.send = calls.send + 1 =>
                /\ RotationStep(_sn, sk, s_ck, _sn', sk', s_ck')
                /\ UNCHANGED <<_rn, rk, r_ck>>
           /\ calls'.recv = calls.recv + 1 =>
                /\ RotationStep(_rn, rk, r_ck, _rn', rk', r_ck')
                /\ UNCHANGED <<_sn, sk, s_ck>>
         ]_vars

\* the key a direction uses after its first rotation
RotatedKey(k0) == get_bolt8_hkdf(HandshakeCk, k0)[2]

\* C1 witness: the receiving direction has rotated, the sending direction has
\* been used and has not
C1_Witness ==
    /\ _rn = 0
    /\ calls.recv > 0
    /\ rk = RotatedKey(HandshakeKeys[2])
    /\ r_ck = get_bolt8_hkdf(HandshakeCk, HandshakeKeys[2])[1]
    /\ calls.send > 0
    /\ sk = HandshakeKeys[1]

\* the operations of one direction use consecutive nonces under one key, and a
\* change of key falls between nonce 999 and nonce 0
EpochOrder(ops, k0) ==
    \A i \in 1..(Len(ops) - 1) :
        IF ops[i + 1].key = ops[i].key
        THEN ops[i + 1].nonce = ops[i].nonce + 1
        ELSE /\ ops[i].nonce = RotateAt - 1
             /\ ops[i].key = k0
             /\ ops[i + 1].nonce = 0
             /\ ops[i + 1].key = RotatedKey(k0)

\* no two operations of the list share a (key, nonce) pair
PairsDistinct(ops) ==
    \A i, j \in 1..Len(ops) :
        i < j => <<ops[i].key, ops[i].nonce>> # <<ops[j].key, ops[j].nonce>>

\* C2 as stated: nonces strictly increase within an epoch and no (key, nonce)
\* pair is used for two AEAD operations of the same direction.
C2_NoPairUsedTwice ==
    /\ EpochOrder(aead_ops.send, HandshakeKeys[1])
    /\ EpochOrder(aead_ops.recv, HandshakeKeys[2])
    /\ PairsDistinct(aead_ops.send)
    /\ PairsDistinct(aead_ops.recv)
    /\ aead_repeat = {}

\* C2 amended: nonces strictly increase within an epoch, the operation with
\* nonce 999 uses the pre-rotation key and the next one nonce 0 with the
\* rotated key, and no (key, nonce) pair is used on two different frames; the
\* only operation ever run twice under one pair is read_message's decryption of
\* the same 18-byte length frame, repeated while the payload is incomplete.
C2_NoPairOnTwoFrames ==
    /\ EpochOrder(aead_ops.send, HandshakeKeys[1])
    /\ EpochOrder(aead_ops.recv, HandshakeKeys[2])
    /\ PairsDistinct(aead_ops.send)
    /\ PairsDistinct(aead_ops.recv)
    /\ \A op \in aead_repeat :
          /\ \E i \in 1..Len(aead_ops.recv) : aead_ops.recv[i] = op
          /\ op.data[2] = 1
          /\ op.data[3] = LenFrame
          /\ op.data[1] % 2 = 1

\* C2 witness: both directions have sealed or opened a frame under the rotated
\* key with nonce 0, right after nonce 999 under the handshake key, and a
\* length frame was decrypted twice
C2_Witness ==
    /\ \E i \in 1..(Len(aead_ops.send) - 1) :
          /\ aead_ops.send[i].nonce = RotateAt - 1
          /\ aead_ops.send[i + 1].key = RotatedKey(HandshakeKeys[1])
    /\ \E i \in 1..(Len(aead_ops.recv) - 1) :
          /\ aead_ops.recv[i].nonce = RotateAt - 1
          /\ aead_ops.recv[i + 1].key = RotatedKey(HandshakeKeys[2])
    /\ aead_repeat # {}


\* the open flow is called with arguments of argss
OpenInit(argss) ==
    /\ TransportInit(0, 0)
    /\ initialized = FALSE
    /\ loop_stopped = FALSE
    /\ main_pc = "read_init"
    /\ inbound_n = 0
    /\ main_msg = [type |-> "none"]
    /\ ChanIdle
    /\ PayIdle
    /\ SideIdle
    /\ channel_accepted = NoQueues
    /\ funding_signed = NoQueues
    /\ open_pc = "start"
    /\ open_args \in argss
    /\ open_locals = [error |-> "none"]
    /\ wallet_txs = <<>>
    /\ broadcasts = <<>>

\* the open flow is called with funding_sat, push_msat and temporary channel id 1
InitOpen ==
    OpenInit({[funding_sat |-> f, push_msat |-> p, temp_channel_id |-> 1] :
                f \in 1..MaxFundingSat, p \in {0, 1000}})

NextOpen ==
    \/ RecvInit
    \/ \E payload \in AcceptPayloads : RecvAcceptChannel(payload)
    \/ \E payload \in FundingSignedPayloads : RecvFundingSigned(payload)
    \/ OpenStart
    \/ \E tx \in WalletAnswers : OpenAccepted(tx)
    \/ \E success \in BOOLEAN : OpenFundingSigned(success)

\* one open flow and the dispatch loop feeding it
SpecOpen == InitOpen /\ [][NextOpen]_vars

-----------------------------------------------------------------------------
(* Claims about the open flow *)

\* both commitment numbers of the open flow's channel are still -1
OpenCtnUnset ==
    "m" \in DOMAIN open_locals =>
        /\ open_locals.m.local_state.ctn = -1
        /\ open_locals.m.remote_state.ctn = -1

\* C3: the funding transaction is broadcast only by the step that takes a
\* funding_signed for the derived channel_id whose signature the commitment
\* engine accepts; while funding_signed has not arrived, and after a rejected
\* signature, nothing is broadcast and both ctn are -1.
C3_BroadcastAfterFundingSigned ==
    /\ [][ broadcasts' # broadcasts =>
             LET tx  == open_locals.funding_tx
                 cid == channel_id_from_funding_tx(tx.txid, tx.index)
             IN  /\ open_pc = "await_funding_signed"
                 /\ CanGet(funding_signed, cid)
                 /\ Head(funding_signed[cid]).channel_id = cid
                 /\ SigAccepted(Head(funding_signed[cid]).signature)
                 /\ broadcasts' = <<tx>>
         ]_vars
    /\ [](open_pc \in {"start", "await_accept", "await_funding_signed"} =>
             broadcasts = <<>> /\ OpenCtnUnset)
    /\ [](open_locals.error = "bad_sig" => broadcasts = <<>> /\ OpenCtnUnset)

\* C3 witness: funding_signed was accepted and the funding transaction broadcast
C3_Witness ==
    /\ open_pc = "done"
    /\ broadcasts = <<open_locals.funding_tx>>
    /\ funding_signed[open_locals.channel_id] = <<>>

\* C4 as stated: when the open flow returns a channel, both ctn are 0 and both
\* the local and the remote state store the counterparty's first commitment
\* signature.
C4_BothStatesStoreSignature ==
    open_pc = "done" =>
        LET m == open_locals.m
        IN  /\ m.local_state.ctn = 0
            /\ m.remote_state.ctn = 0
            /\ m.local_state.current_commitment_signature = open_locals.remote_sig
            /\ "current_commitment_signature" \in DOMAIN m.remote_state
            /\ m.remote_state.current_commitment_signature = open_locals.remote_sig

\* C4 amended: when the open flow returns a channel, both ctn are 0 and the
\* local state stores the counterparty's first commitment signature (the one
\* funding_signed carried); the remote state has no signature field.
C4_CtnZeroAndLocalSignature ==
    open_pc = "done" =>
        LET m == open_locals.m
        IN  /\ m.local_state.ctn = 0
            /\ m.remote_state.ctn = 0
            /\ SigAccepted(open_locals.remote_sig)
            /\ m.local_state.current_commitment_signature = open_locals.remote_sig
            /\ "current_commitment_signature" \notin DOMAIN m.remote_state

\* C4 witness: the open flow has returned the channel, keeping signature 2
C4_Witness ==
    /\ open_pc = "done"
    /\ open_locals.remote_sig = 2
    /\ open_locals.m.channel_id = 5

\* the funding_created messages sent so far
FundingCreatedSent == {i \in DOMAIN written : written[i].msg.type = "funding_created"}

\* C5: when the accept_channel the open flow takes has dust_limit_satoshis >=
\* 600, htlc_minimum_msat >= 600000 or max_htlc_value_in_flight_msat <
\* 198000000, the flow stops with an error: the wallet is not asked for a
\* funding transaction, funding_created is not sent, nothing is broadcast.
C5_InsaneAcceptStopsOpen ==
    /\ [][ (open_pc = "await_accept" /\ open_pc' # "await_accept") =>
             LET payload == Head(channel_accepted[open_args.temp_channel_id])
             IN  ( \/ payload.dust_limit_satoshis >= 600
                   \/ payload.htlc_minimum_msat >= 600000
                   \/ payload.max_htlc_value_in_flight_msat < 198000000 )
                 => /\ open_pc' = "failed"
                    /\ open_locals'.error = "sanity"
                    /\ loop_stopped'
                    /\ UNCHANGED <<wallet_txs, written, broadcasts>>
         ]_vars
    /\ [](open_locals.error = "sanity" =>
             /\ wallet_txs = <<>>
             /\ FundingCreatedSent = {}
             /\ broadcasts = <<>>)

\* C5 witness: the open flow stopped on an accept_channel that fails a check,
\* after sending open_channel only
C5_Witness ==
    /\ open_pc = "failed"
    /\ open_locals.error = "sanity"
    /\ Len(written) = 1
    /\ written[1].msg.type = "open_channel"

-----------------------------------------------------------------------------
(* The channel lifecycle: reestablish_channel, on_channel_reestablish,
   funding_locked, on_funding_locked, mark_open *)

\* commitment numbers a stored channel starts from
MaxCtn == 1

\* calls of Peer.funding_locked
MaxFundingLockedCalls == 2

\* the channel lnworker knows, a channel id it does not know
KnownChan == 1
UnknownChan == 2

\* per-commitment points: the stored current and next point, the point a
\* funding_locked carries, a point nobody stored
StoredCurrentPoint == 5
StoredNextPoint == 6
LockedPoint == 8
Points == {StoredCurrentPoint, StoredNextPoint, LockedPoint}

\* the local per-commitment point of index 2^48 - 2
SecondPoint == 9

\* the short channel id lnworker assigns once the funding is buried
BuriedShortId == 7

\* the capacity in satoshi of the channel lnworker holds
StoredCapacity == 1

\* a channel record as lnworker holds it when the peer connects; unsettled_msat
\* and settled_msat are the HTLCStateMachine's books of the htlc added
StoredChannel(lctn, rctn, flr, scid) ==
    [ channel_id |-> KnownChan,
      short_channel_id |-> scid,
      constraints |-> [capacity |-> StoredCapacity],
      unsettled_msat |-> 0,
      settled_msat |-> 0,
      remote_state |-> [ctn |-> rctn,
                        amount_msat |-> 0,
                        next_htlc_id |-> 0,
                        next_per_commitment_point |-> StoredNextPoint,
                        current_per_commitment_point |->
                            IF flr THEN StoredCurrentPoint ELSE 0],
      local_state |-> [ctn |-> lctn,
                       amount_msat |-> StoredCapacity * 1000,
                       next_htlc_id |-> 0,
                       funding_locked_received |-> flr,
                       was_announced |-> FALSE,
                       current_commitment_signature |-> 0] ]

\* on_channel_reestablish comparing the point with the current point only
ReestablishValid_current_only(payload, chan) ==
    LET remote_ctn == payload.next_local_commitment_number
        local_ctn  == payload.next_remote_revocation_number
        their      == payload.my_current_per_commitment_point
        our        == chan.remote_state.current_per_commitment_point
    IN  /\ remote_ctn = chan.remote_state.ctn + 1
        /\ local_ctn = chan.local_state.ctn
        /\ (our # 0 => our = their)

\* on_channel_reestablish, lines 655-666: none of the three checks raises
ReestablishValid(payload, chan) ==
    LET remote_ctn == payload.next_local_commitment_number
        local_ctn  == payload.next_remote_revocation_number
        their      == payload.my_current_per_commitment_point
        our        == IF chan.remote_state.current_per_commitment_point = 0
                      THEN chan.remote_state.next_per_commitment_point
                      ELSE chan.remote_state.current_per_commitment_point
    IN  /\ remote_ctn = chan.remote_state.ctn + 1
        /\ local_ctn = chan.local_state.ctn
        /\ our = their

\* the future channel_reestablished[key] is done
FutureDone(d, key) == key \in DOMAIN d /\ d[key]

\* channel_reestablished[key] touched: defaultdict(asyncio.Future)
TouchFuture(d, key) == IF key \in DOMAIN d THEN d ELSE d @@ (key :> FALSE)

\* Peer.mark_open(chan) on the tags cs: the new tags
mark_open(cs, chan) ==
    IF cs[chan.channel_id] = "OPEN"
    THEN cs
    ELSE [cs EXCEPT ![chan.channel_id] = "OPEN"]

\* Peer.mark_open(chan): what the channel database is handed
mark_open_db(cs, db, chan) ==
    IF cs[chan.channel_id] = "OPEN" THEN db ELSE db \cup {chan.short_channel_id}

\* reestablish_channel that leaves the channel OPENING after the future is done
ReestablishFinish_no_open(chan) ==
    /\ channel_state' = [channel_state EXCEPT ![chan.channel_id] = "OPENING"]
    /\ channel_db' = channel_db

\* reestablish_channel, lines 642-645, after the future is done
ReestablishFinish(chan) ==
    LET cs == [channel_state EXCEPT ![chan.channel_id] = "OPENING"]
    IN  IF chan.local_state.funding_locked_received /\ chan.short_channel_id # 0
        THEN /\ channel_state' = mark_open(cs, chan)
             /\ channel_db' = mark_open_db(cs, channel_db, chan)
        ELSE /\ channel_state' = cs
             /\ channel_db' = channel_db

\* reestablish_channel, lines 632-641 (and 642-645 when the future is done
\* already, since awaiting a done future does not suspend)
ReestablishStart ==
    /\ ~loop_stopped
    /\ reest_pc = "start"
    /\ initialized
    /\ LET chan == channels[KnownChan]
           chan_id == chan.channel_id
       IN  /\ send_message([type |-> "channel_reestablish",
                            channel_id |-> chan_id,
                            next_local_commitment_number |-> chan.local_state.ctn + 1,
                            next_remote_revocation_number |-> chan.remote_state.ctn])
           /\ channel_reestablished' = TouchFuture(channel_reestablished, chan_id)
           /\ IF FutureDone(channel_reestablished, chan_id)
              THEN /\ ReestablishFinish(chan)
                   /\ reest_pc' = "done"
              ELSE /\ channel_state' = [channel_state EXCEPT ![chan_id] = "REESTABLISHING"]
                   /\ channel_db' = channel_db
                   /\ reest_pc' = "await"
           /\ reest_suspended' = ~FutureDone(channel_reestablished, chan_id)
    /\ UNCHANGED <<rxVars, loopVars, openVars, channels, saved, fl_calls, payVars, sideVars>>

\* reestablish_channel, lines 641-645: woken by the future
ReestablishResume ==
    /\ ~loop_stopped
    /\ reest_pc = "await"
    /\ FutureDone(channel_reestablished, KnownChan)
    /\ ReestablishFinish(channels[KnownChan])
    /\ reest_pc' = "done"
    /\ UNCHANGED <<transportVars, loopVars, openVars, channels, saved,
                   channel_reestablished, reest_suspended, fl_calls, payVars, sideVars>>

\* Peer.on_channel_reestablish(payload); set_result on a future that is done
\* raises InvalidStateError
RecvChannelReestablish(payload) ==
    /\ CanDispatch
    /\ LET chan_id == payload.channel_id
       IN  IF chan_id \notin DOMAIN channels
           THEN Dispatched(payload, FALSE) /\ UNCHANGED channel_reestablished
           ELSE IF ~ReestablishValid(payload, channels[chan_id])
           THEN Dispatched(payload, TRUE) /\ UNCHANGED channel_reestablished
           ELSE IF FutureDone(channel_reestablished, chan_id)
           THEN Dispatched(payload, TRUE) /\ UNCHANGED channel_reestablished
           ELSE /\ Dispatched(payload, FALSE)
                /\ channel_reestablished' =
                       [TouchFuture(channel_reestablished, chan_id) EXCEPT ![chan_id] = TRUE]
    /\ UNCHANGED <<transportVars, openVars, channels, channel_state, saved, channel_db,
                   reest_pc, reest_suspended, fl_calls, payVars, sideVars>>

\* Peer.funding_locked(chan), called by lnworker
CallFundingLocked ==
    /\ ~loop_stopped
    /\ fl_calls < MaxFundingLockedCalls
    /\ fl_calls' = fl_calls + 1
    /\ LET chan == channels[KnownChan]
       IN  /\ send_message([type |-> "funding_locked",
                            channel_id |-> chan.channel_id,
                            next_per_commitment_point |-> SecondPoint])
           /\ IF chan.local_state.funding_locked_received
              THEN /\ channel_state' = mark_open(channel_state, chan)
                   /\ channel_db' = mark_open_db(channel_state, channel_db, chan)
              ELSE UNCHANGED <<channel_state, channel_db>>
    /\ UNCHANGED <<rxVars, loopVars, openVars, channels, saved, channel_reestablished,
                   reest_pc, reest_suspended, payVars, sideVars>>

\* on_funding_locked rotating the points at every funding_locked
LockedChannel_every_time(chan, payload) ==
    [chan EXCEPT
        !.remote_state.current_per_commitment_point =
            chan.remote_state.next_per_commitment_point,
        !.remote_state.next_per_commitment_point =
            payload.next_per_commitment_point,
        !.local_state.funding_locked_received = TRUE]

\* on_funding_locked, lines 683-690: the record after the counterparty's
\* funding_locked
LockedChannel(chan, payload) ==
    IF ~chan.local_state.funding_locked_received
    THEN [chan EXCEPT
            !.remote_state.current_per_commitment_point =
                chan.remote_state.next_per_commitment_point,
            !.remote_state.next_per_commitment_point =
                payload.next_per_commitment_point,
            !.local_state.funding_locked_received = TRUE]
    ELSE chan

\* Peer.on_funding_locked(payload)
RecvFundingLocked(payload) ==
    /\ CanDispatch
    /\ LET channel_id == payload.channel_id
       IN  IF channel_id \notin DOMAIN channels
           THEN /\ Dispatched(payload, TRUE)
                /\ UNCHANGED <<channels, saved, channel_state, channel_db>>
           ELSE LET chan == LockedChannel(channels[channel_id], payload)
                IN  /\ Dispatched(payload, FALSE)
                    /\ channels' = [channels EXCEPT ![channel_id] = chan]
                    /\ saved' = IF chan # channels[channel_id]
                                THEN [saved EXCEPT ![channel_id] = chan]
                                ELSE saved
                    /\ IF chan.short_channel_id # 0
                       THEN /\ channel_state' = mark_open(channel_state, chan)
                            /\ channel_db' = mark_open_db(channel_state, channel_db, chan)
                       ELSE UNCHANGED <<channel_state, channel_db>>
    /\ UNCHANGED <<transportVars, openVars, channel_reestablished, reest_pc,
                   reest_suspended, fl_calls, payVars, sideVars>>

\* lnworker assigns the short channel id once the funding is buried
SetShortChannelId ==
    /\ ~loop_stopped
    /\ channels[KnownChan].short_channel_id = 0
    /\ channels' = [channels EXCEPT ![KnownChan].short_channel_id = BuriedShortId]
    /\ UNCHANGED <<transportVars, loopVars, openVars, channel_state, saved, channel_db,
                   channel_reestablished, reest_pc, reest_suspended, fl_calls, payVars,
                   sideVars>>

\* the channel_reestablish messages the counterparty may send
ReestablishPayloads ==
    { [type |-> "channel_reestablish",
       channel_id |-> KnownChan,
       next_local_commitment_number |-> nl,
       next_remote_revocation_number |-> nr,
       my_current_per_commitment_point |-> p] :
      nl \in 0..(MaxCtn + 1), nr \in 0..(MaxCtn + 1), p \in Points }
    \cup
    { [type |-> "channel_reestablish",
       channel_id |-> UnknownChan,
       next_local_commitment_number |-> 1,
       next_remote_revocation_number |-> 0,
       my_current_per_commitment_point |-> StoredNextPoint] }

\* the funding_locked messages the counterparty may send
FundingLockedPayloads ==
    { [type |-> "funding_locked", channel_id |-> c,
       next_per_commitment_point |-> LockedPoint] : c \in {KnownChan, UnknownChan} }

\* a connection to a peer with one stored channel: reestablish_channel is
\* scheduled for it, or the channel was opened on this connection
InitChan ==
    /\ TransportInit(0, 0)
    /\ initialized = FALSE
    /\ loop_stopped = FALSE
    /\ main_pc = "read_init"
    /\ inbound_n = 0
    /\ main_msg = [type |-> "none"]
    /\ OpenIdle
    /\ PayIdle
    /\ SideIdle
    /\ \E flr \in BOOLEAN, scid \in {0, BuriedShortId},
          lctn \in 0..MaxCtn, rctn \in 0..MaxCtn :
          /\ ~flr => (lctn = 0 /\ rctn = 0)
          /\ channels = (KnownChan :> StoredChannel(lctn, rctn, flr, scid))
    /\ channel_state = (KnownChan :> "OPENING")
    /\ saved = channels
    /\ channel_db = {}
    /\ channel_reestablished = <<>>
    /\ reest_pc \in {"idle", "start"}
    /\ reest_suspended = FALSE
    /\ fl_calls = 0

NextChan ==
    \/ RecvInit
    \/ \E payload \in ReestablishPayloads : RecvChannelReestablish(payload)
    \/ \E payload \in FundingLockedPayloads : RecvFundingLocked(payload)
    \/ ReestablishStart
    \/ ReestablishResume
    \/ CallFundingLocked
    \/ SetShortChannelId

\* one stored channel, its reestablishment and its funding lock
SpecChan == InitChan /\ [][NextChan]_vars

-----------------------------------------------------------------------------
(* Claims about the channel lifecycle *)

\* this step dispatches a channel_reestablish for the known channel
ReestablishDispatched ==
    /\ inbound_n' = inbound_n + 1
    /\ main_msg'.type = "channel_reestablish"
    /\ main_msg'.channel_id = KnownChan

\* this step is reestablish_channel leaving REESTABLISHING behind
ReestablishMoves ==
    /\ reest_pc' # reest_pc
    /\ channel_state'[KnownChan] \in {"OPENING", "OPEN"}

\* the counters and the point of channel_reestablish message m are the ones
\* channel chan expects: next_local_commitment_number is remote.ctn + 1,
\* next_remote_revocation_number is local.ctn, and the point is the current
\* point of the remote state, or its next point when the current one is null
ReestablishMatches(m, chan) ==
    /\ m.next_local_commitment_number = chan.remote_state.ctn + 1
    /\ m.next_remote_revocation_number = chan.local_state.ctn
    /\ \/ /\ chan.remote_state.current_per_commitment_point # 0
          /\ m.my_current_per_commitment_point =
                 chan.remote_state.current_per_commitment_point
       \/ /\ chan.remote_state.current_per_commitment_point = 0
          /\ m.my_current_per_commitment_point =
                 chan.remote_state.next_per_commitment_point

\* C6: the reestablishment future of a known channel becomes done only in the
\* dispatch of a channel_reestablish whose two counters and whose point match
\* the channel; a channel_reestablish that does not match raises, leaves the
\* future as it was, and reestablish_channel moves the channel to OPENING or
\* OPEN only when the future is done, never after a mismatch
C6_ReestablishOnlyOnMatch ==
    [][ /\ (FutureDone(channel_reestablished, KnownChan)'
              /\ ~FutureDone(channel_reestablished, KnownChan))
           => (ReestablishDispatched /\ ReestablishMatches(main_msg', channels[KnownChan]))
        /\ (ReestablishDispatched /\ ~ReestablishMatches(main_msg', channels[KnownChan]))
           => /\ loop_stopped'
              /\ UNCHANGED <<channel_reestablished, channel_state, reest_pc>>
        /\ ReestablishMoves => FutureDone(channel_reestablished, KnownChan)
        /\ (loop_stopped /\ main_pc = "dead") => reest_pc' = reest_pc
      ]_vars

\* a channel_reestablish matching on both counters and on the next point, the
\* current point being null, satisfied the future and the flow went on
C6_Witness ==
    /\ reest_pc = "done"
    /\ reest_suspended
    /\ main_msg.type = "channel_reestablish"
    /\ main_msg.channel_id = KnownChan
    /\ channels[KnownChan].remote_state.current_per_commitment_point = 0
    /\ main_msg.my_current_per_commitment_point = StoredNextPoint
    /\ main_msg.next_local_commitment_number = 1

\* C7: the step in which reestablish_channel completes leaves the channel OPEN
\* when funding_locked_received is true and short_channel_id is known, OPENING
\* otherwise, whether the flow waited for the counterparty's channel_reestablish
\* or found the future done
C7_ReestablishEndsOpenOrOpening ==
    [][ (reest_pc' = "done" /\ reest_pc # "done")
        => channel_state'[KnownChan] =
              IF /\ channels[KnownChan].local_state.funding_locked_received
                 /\ channels[KnownChan].short_channel_id # 0
              THEN "OPEN" ELSE "OPENING"
      ]_vars

\* reestablish_channel found the future done when it reached the await, and
\* ended with the channel OPEN
C7_Witness ==
    /\ reest_pc = "done"
    /\ ~reest_suspended
    /\ channel_state[KnownChan] = "OPEN"
    /\ fl_calls = 0
    /\ Len(written) = 1
    /\ written[1].msg.type = "channel_reestablish"

\* reestablish_channel waited for the future and ended with the channel OPENING
C7_WitnessWaited ==
    /\ reest_pc = "done"
    /\ reest_suspended
    /\ channel_state[KnownChan] = "OPENING"

\* C8: a channel whose tag is OPEN has funding_locked_received true and a
\* short_channel_id that is not null
C8_OpenHasLockAndShortId ==
    \A c \in DOMAIN channels :
        channel_state[c] = "OPEN"
        => /\ channels[c].local_state.funding_locked_received
           /\ channels[c].short_channel_id # 0

\* C8 for the transitions made by on_funding_locked and reestablish_channel:
\* a channel OPEN before any call of funding_locked has both
C8_OpenWithoutLocalLock ==
    fl_calls = 0 => C8_OpenHasLockAndShortId

\* the channel was marked OPEN by funding_locked
C8_Witness ==
    /\ channel_state[KnownChan] = "OPEN"
    /\ fl_calls > 0
    /\ reest_pc = "idle"
    /\ channels[KnownChan].short_channel_id = 0

-----------------------------------------------------------------------------
(* The pay flow: Peer.pay, receive_revoke, revoke, and the handlers feeding it *)

\* inbound messages dispatched while a payment is in flight
MaxPayInbound == 6

\* a getter task that was started and has not returned
PendingTask == [st |-> "pending", result |-> 0]

\* a route of n hops as create_route_from_path answers it
Route(n) ==
    [i \in 1..n |-> [node_id |-> i, short_channel_id |-> BuriedShortId + i - 1,
                     channel_policy |-> [fee_base_msat |-> 0,
                                         fee_proportional_millionths |-> 0]]]

\* the route create_route_from_path answers: two hops
PayRoute == Route(2)

\* HTLCStateMachine applied to chan: add_htlc takes the next htlc id,
\* receive_htlc the counterparty's next htlc id,
\* receive_revocation advances the remote commitment number,
\* revoke_current_commitment the local one
EngineCall(chan, call) ==
    CASE call = "add_htlc" ->
            [chan EXCEPT !.local_state.next_htlc_id = @ + 1]
      [] call = "receive_htlc" ->
            [chan EXCEPT !.remote_state.next_htlc_id = @ + 1]
      [] call = "receive_revocation" ->
            [chan EXCEPT !.remote_state.ctn = @ + 1,
                         !.remote_state.amount_msat = @ + chan.settled_msat,
                         !.local_state.amount_msat = @ - chan.settled_msat,
                         !.settled_msat = 0]
      [] call = "receive_htlc_settle" ->
            [chan EXCEPT !.settled_msat = @ + chan.unsettled_msat,
                         !.unsettled_msat = 0]
      [] call = "fail_htlc" ->
            [chan EXCEPT !.unsettled_msat = 0]
      [] call = "revoke_current_commitment" ->
            [chan EXCEPT !.local_state.ctn = @ + 1]
      [] OTHER -> chan

\* HTLCStateMachine.receive_revocation accepts the revocation (secret 1 is the
\* secret of the revoked commitment, any other is not)
RevocationAccepted(rev) == rev.per_commitment_secret = 1

\* the pay flow's view of the peer: where it is, the channel, the queues it
\* reads, the messages it has sent since it was resumed
PayState ==
    [pc |-> pay_pc, chan |-> channels[KnownChan], out |-> <<>>, log |-> engine_log,
     revoke_and_ack |-> revoke_and_ack, commitment_signed |-> commitment_signed,
     update_fulfill_htlc |-> update_fulfill_htlc, update_fail_htlc |-> update_fail_htlc,
     fulfill_coro |-> fulfill_coro, failure_coro |-> failure_coro,
     saved |-> saved, attempted_route |-> attempted_route, args |-> pay_args]

\* a call on the channel's HTLCStateMachine
Engine(st, call) ==
    [st EXCEPT !.chan = EngineCall(@, call), !.log = Append(@, call)]

\* self.send_message(msg) by the flow
Sent(st, msg) == [st EXCEPT !.out = Append(@, msg)]

RECURSIVE total_fee(_, _)
\* lines 834-836: the fees of the edges, each on the amount paid
total_fee(edges, amount_msat) ==
    IF edges = <<>> THEN 0
    ELSE Head(edges).channel_policy.fee_base_msat
         + (amount_msat * Head(edges).channel_policy.fee_proportional_millionths)
               \div 1000000
         + total_fee(Tail(edges), amount_msat)

\* lines 841-842 without the fees
PayLocals_without_fee(chan, args) ==
    [msat_local |-> chan.local_state.amount_msat - args.amount_msat,
     msat_remote |-> chan.remote_state.amount_msat + args.amount_msat]

\* lines 841-842: msat_local and msat_remote, worked out when pay starts
PayLocals(chan, args) ==
    [msat_local |-> chan.local_state.amount_msat
                    - (args.amount_msat + total_fee(Tail(args.route), args.amount_msat)),
     msat_remote |-> chan.remote_state.amount_msat
                     + (args.amount_msat + total_fee(Tail(args.route), args.amount_msat))]

\* lines 889-890: the commitment without htlcs that pay signs at the end
bare_ctx(st) ==
    [ctn |-> st.chan.remote_state.ctn + 1,
     remote_msat |-> st.args.msat_remote,
     local_msat |-> st.args.msat_local]

\* commitment_signed as pay sends it, with num_htlcs htlc signatures
CommitmentSigned(st, num_htlcs) ==
    IF num_htlcs = 0 /\ st.pc = "fulfill_commit"
    THEN Sent(Engine(st, "make_commitment"),
              [type |-> "commitment_signed", channel_id |-> st.chan.channel_id,
               num_htlcs |-> num_htlcs, signature |-> bare_ctx(st)])
    ELSE Sent(Engine(st, "sign_next_commitment"),
              [type |-> "commitment_signed", channel_id |-> st.chan.channel_id,
               num_htlcs |-> num_htlcs])

\* Peer.receive_revoke(chan), the queue holding a revoke_and_ack
receive_revoke(st) ==
    LET cid == st.chan.channel_id
        rev == Head(st.revoke_and_ack[cid])
        s1  == [st EXCEPT !.revoke_and_ack = Pop(@, cid)]
    IN  IF RevocationAccepted(rev)
        THEN Engine(s1, "receive_revocation")
        ELSE [s1 EXCEPT !.pc = "raised"]

\* Peer.revoke(chan)
revoke(st) ==
    Sent(Engine(st, "revoke_current_commitment"),
         [type |-> "revoke_and_ack", channel_id |-> st.chan.channel_id])

\* the flow suspends at its await: the queue it reads exists from now on
Suspended(st) ==
    IF st.pc \in {"fail_commit", "fulfill_commit"}
    THEN [st EXCEPT !.commitment_signed = Touch(@, st.chan.channel_id)]
    ELSE [st EXCEPT !.revoke_and_ack = Touch(@, st.chan.channel_id)]

\* the messages pay sends before its first await, lines 846 and 853
PayFirstMessages_commit_first(chan, args) ==
    << [type |-> "commitment_signed", channel_id |-> chan.channel_id, num_htlcs |-> 1],
       [type |-> "update_add_htlc", channel_id |-> chan.channel_id,
        id |-> chan.local_state.next_htlc_id,
        amount_msat |-> args.amount_msat
                        + total_fee(Tail(args.route), args.amount_msat)] >>

\* the messages pay sends before its first await, lines 846 and 853
PayFirstMessages(chan, args) ==
    << [type |-> "update_add_htlc", channel_id |-> chan.channel_id,
        id |-> chan.local_state.next_htlc_id,
        amount_msat |-> args.amount_msat
                        + total_fee(Tail(args.route), args.amount_msat)],
       [type |-> "commitment_signed", channel_id |-> chan.channel_id, num_htlcs |-> 1] >>

RECURSIVE PayRun(_)
\* Peer.pay from the await it is at to the next await that has to wait, to its
\* return or to its raise; a get on a queue that holds a message does not suspend
PayRun(st) ==
    LET cid == st.chan.channel_id
    IN
    CASE st.pc = "revoke_1" ->                               \* lines 854-861
            IF ~CanGet(st.revoke_and_ack, cid) THEN Suspended(st)
            ELSE LET s1 == receive_revoke(st)
                 IN  IF s1.pc = "raised" THEN s1
                     ELSE [revoke(s1) EXCEPT
                             !.pc = "race",
                             !.update_fulfill_htlc = Touch(@, cid),
                             !.update_fail_htlc = Touch(@, cid),
                             !.fulfill_coro = PendingTask,
                             !.failure_coro = PendingTask]
      [] st.pc \in {"fail_commit", "fulfill_commit"} ->      \* lines 865-866, 883-893
            IF ~CanGet(st.commitment_signed, cid) THEN Suspended(st)
            ELSE LET m  == Head(st.commitment_signed[cid])
                     s1 == [st EXCEPT !.commitment_signed = Pop(@, cid)]
                 IN  IF m.htlc_signature # 0
                     THEN PayRun(revoke(s1))
                     ELSE IF st.pc = "fail_commit"
                     THEN PayRun([s1 EXCEPT !.pc = "fail_revoke_1"])
                     ELSE PayRun([CommitmentSigned(revoke(s1), 0) EXCEPT
                                    !.pc = "fulfill_revoke"])
      [] st.pc = "fail_revoke_1" ->                          \* lines 868-871
            IF ~CanGet(st.revoke_and_ack, cid) THEN Suspended(st)
            ELSE LET s1 == receive_revoke(st)
                 IN  IF s1.pc = "raised" THEN s1
                     ELSE PayRun([CommitmentSigned(Engine(s1, "fail_htlc"), 0) EXCEPT
                                    !.pc = "fail_revoke_2"])
      [] st.pc = "fail_revoke_2" ->                          \* lines 872-875
            IF ~CanGet(st.revoke_and_ack, cid) THEN Suspended(st)
            ELSE LET s1 == receive_revoke(st)
                 IN  IF s1.pc = "raised" THEN s1
                     ELSE [s1 EXCEPT
                             !.fulfill_coro = IF @.st = "pending"
                                              THEN [st |-> "cancelled", result |-> 0]
                                              ELSE @,
                             !.saved = [@ EXCEPT ![cid] = s1.chan],
                             !.pc = "failed"]
      [] st.pc = "fulfill_revoke" ->                         \* lines 895-898
            IF ~CanGet(st.revoke_and_ack, cid) THEN Suspended(st)
            ELSE LET s1 == receive_revoke(st)
                 IN  IF s1.pc = "raised" THEN s1
                     ELSE [s1 EXCEPT !.saved = [@ EXCEPT ![cid] = s1.chan],
                                     !.pc = "fulfilled"]
      [] OTHER -> st

\* the peer after the pay flow ran to st; aiosafe stops the loop on a raise
PayRan(st) ==
    /\ pay_pc' = st.pc
    /\ channels' = [channels EXCEPT ![KnownChan] = st.chan]
    /\ send_messages(st.out)
    /\ engine_log' = st.log
    /\ revoke_and_ack' = st.revoke_and_ack
    /\ commitment_signed' = st.commitment_signed
    /\ update_fulfill_htlc' = st.update_fulfill_htlc
    /\ update_fail_htlc' = st.update_fail_htlc
    /\ fulfill_coro' = st.fulfill_coro
    /\ failure_coro' = st.failure_coro
    /\ saved' = st.saved
    /\ attempted_route' = st.attempted_route
    /\ pay_args' = st.args
    /\ loop_stopped' = (st.pc = "raised")
    /\ UNCHANGED <<rxVars, initialized, main_pc, inbound_n, main_msg, openVars,
                   channel_state, channel_db, channel_reestablished, reest_pc,
                   reest_suspended, fl_calls, blacklist, sideVars>>

\* Peer.pay, lines 825-854: the asserts, update_add_htlc, add_htlc, the route
\* recorded, commitment_signed, then the flow as far as it gets
PayStart ==
    /\ ~loop_stopped
    /\ pay_pc = "start"
    /\ LET chan == channels[KnownChan]
           st   == PayState
       IN  IF channel_state[chan.channel_id] # "OPEN" \/ pay_args.amount_msat <= 0
           THEN PayRan([st EXCEPT !.pc = "raised"])
           ELSE LET msgs == PayFirstMessages(chan, pay_args)
                    s0 == [st EXCEPT !.args = PayLocals(chan, pay_args) @@ @]
                    s1 == [Engine(Sent(s0, msgs[1]), "add_htlc") EXCEPT
                             !.chan.unsettled_msat =
                                 pay_args.amount_msat
                                 + total_fee(Tail(pay_args.route), pay_args.amount_msat)]
                    s2 == [s1 EXCEPT !.attempted_route =
                              (<<chan.channel_id, chan.local_state.next_htlc_id>>
                                  :> pay_args.route) @@ @]
                    s3 == Sent(Engine(s2, "sign_next_commitment"), msgs[2])
                IN  PayRan(PayRun([s3 EXCEPT !.pc = "revoke_1"]))

\* Peer.pay woken at an await on revoke_and_ack or commitment_signed
PayResume ==
    /\ ~loop_stopped
    /\ \/ /\ pay_pc \in {"revoke_1", "fail_revoke_1", "fail_revoke_2", "fulfill_revoke"}
          /\ CanGet(revoke_and_ack, KnownChan)
       \/ /\ pay_pc \in {"fail_commit", "fulfill_commit"}
          /\ CanGet(commitment_signed, KnownChan)
    /\ PayRan(PayRun(PayState))

\* Peer.pay, lines 861-883: asyncio.wait returns since a getter task is done
PayRaceDone ==
    /\ ~loop_stopped
    /\ pay_pc = "race"
    /\ fulfill_coro.st = "done" \/ failure_coro.st = "done"
    /\ IF failure_coro.st = "done"
       THEN PayRan(PayRun([CommitmentSigned(PayState, 1) EXCEPT !.pc = "fail_commit"]))
       ELSE PayRan(PayRun([Engine(PayState, "receive_htlc_settle") EXCEPT
                             !.failure_coro = [st |-> "cancelled", result |-> 0],
                             !.pc = "fulfill_commit"]))

\* the task fulfill_coro: update_fulfill_htlc[chan.channel_id].get() returns
FulfillGetter ==
    /\ ~loop_stopped
    /\ fulfill_coro.st = "pending"
    /\ CanGet(update_fulfill_htlc, KnownChan)
    /\ fulfill_coro' = [st |-> "done", result |-> Head(update_fulfill_htlc[KnownChan])]
    /\ update_fulfill_htlc' = Pop(update_fulfill_htlc, KnownChan)
    /\ UNCHANGED <<transportVars, loopVars, openVars, chanVars, revoke_and_ack,
                   commitment_signed, update_fail_htlc, attempted_route, blacklist,
                   pay_pc, pay_args, failure_coro, engine_log, sideVars>>

\* the task failure_coro: update_fail_htlc[chan.channel_id].get() returns
FailureGetter ==
    /\ ~loop_stopped
    /\ failure_coro.st = "pending"
    /\ CanGet(update_fail_htlc, KnownChan)
    /\ failure_coro' = [st |-> "done", result |-> Head(update_fail_htlc[KnownChan])]
    /\ update_fail_htlc' = Pop(update_fail_htlc, KnownChan)
    /\ UNCHANGED <<transportVars, loopVars, openVars, chanVars, revoke_and_ack,
                   commitment_signed, update_fulfill_htlc, attempted_route, blacklist,
                   pay_pc, pay_args, fulfill_coro, engine_log, sideVars>>

\* main_loop can dispatch one more message while a payment is in flight
CanDispatchPay ==
    /\ ~loop_stopped
    /\ main_pc # "dead"
    /\ inbound_n < MaxPayInbound

\* Peer.on_revoke_and_ack(payload)
RecvRevokeAndAck(payload) ==
    /\ CanDispatchPay
    /\ Dispatched(payload, FALSE)
    /\ revoke_and_ack' = Put(revoke_and_ack, payload.channel_id, payload)
    /\ UNCHANGED <<transportVars, openVars, chanVars, commitment_signed,
                   update_fulfill_htlc, update_fail_htlc, attempted_route, blacklist,
                   pay_pc, pay_args, fulfill_coro, failure_coro, engine_log, sideVars>>

\* Peer.on_update_fulfill_htlc(payload)
RecvUpdateFulfillHtlc(payload) ==
    /\ CanDispatchPay
    /\ Dispatched(payload, FALSE)
    /\ update_fulfill_htlc' = Put(update_fulfill_htlc, payload.channel_id, payload)
    /\ UNCHANGED <<transportVars, openVars, chanVars, revoke_and_ack, commitment_signed,
                   update_fail_htlc, attempted_route, blacklist,
                   pay_pc, pay_args, fulfill_coro, failure_coro, engine_log, sideVars>>

\* Peer.on_commitment_signed(payload)
RecvCommitmentSigned(payload) ==
    /\ CanDispatchPay
    /\ LET channel_id == payload.channel_id
       IN  IF channel_id \notin DOMAIN channels
           THEN /\ Dispatched(payload, TRUE)
                /\ UNCHANGED <<channels, saved, commitment_signed>>
           ELSE LET chan == [channels[channel_id] EXCEPT
                               !.local_state.current_commitment_signature =
                                   payload.signature]
                IN  /\ Dispatched(payload, FALSE)
                    /\ channels' = [channels EXCEPT ![channel_id] = chan]
                    /\ saved' = [saved EXCEPT ![channel_id] = chan]
                    /\ commitment_signed' = Put(commitment_signed, channel_id, payload)
    /\ UNCHANGED <<transportVars, openVars, channel_state, channel_db,
                   channel_reestablished, reest_pc, reest_suspended, fl_calls,
                   revoke_and_ack, update_fulfill_htlc, update_fail_htlc,
                   attempted_route, blacklist, pay_pc, pay_args, fulfill_coro,
                   failure_coro, engine_log, sideVars>>

\* on_update_fail_htlc adding NODE to the categories of every UPDATE code
Categories_node_with_update(code) ==
    LET Bit(b) == (code \div b) % 2 = 1
    IN  (IF Bit(32768) THEN <<"BADONION">> ELSE <<>>)
        \o (IF Bit(16384) THEN <<"PERM">> ELSE <<>>)
        \o (IF Bit(8192) \/ Bit(4096) THEN <<"NODE">> ELSE <<>>)
        \o (IF Bit(4096) THEN <<"UPDATE">> ELSE <<>>)

\* on_update_fail_htlc, lines 805-813: the categories of a failure code, by
\* its bits 0x8000, 0x4000, 0x2000 and 0x1000
Categories(code) ==
    LET Bit(b) == (code \div b) % 2 = 1
    IN  (IF Bit(32768) THEN <<"BADONION">> ELSE <<>>)
        \o (IF Bit(16384) THEN <<"PERM">> ELSE <<>>)
        \o (IF Bit(8192) THEN <<"NODE">> ELSE <<>>)
        \o (IF Bit(4096) THEN <<"UPDATE">> ELSE <<>>)

\* the failure string of line 821
FailureString(code) ==
    <<"HTLC failure with code", code, "categories", Categories(code)>>

\* Peer.on_update_fail_htlc(payload): the route lookup raises KeyError for an
\* attempt that was not recorded; decode_onion_error names a node of the route
\* as the sender; when the onion error names the last hop,
\* route[sender_idx + 1] raises IndexError, short_chan_id stays unbound and
\* line 820 raises
RecvUpdateFailHtlc(payload) ==
    /\ CanDispatchPay
    /\ <<payload.channel_id, payload.id>> \in DOMAIN attempted_route
          => payload.reason.sender_idx
                < Len(attempted_route[<<payload.channel_id, payload.id>>])
    /\ LET key == <<payload.channel_id, payload.id>>
       IN  IF key \notin DOMAIN attempted_route
           THEN /\ Dispatched(payload, TRUE)
                /\ UNCHANGED <<blacklist, update_fail_htlc>>
           ELSE LET route == attempted_route[key]
                    sender_idx == payload.reason.sender_idx
                IN  IF sender_idx + 2 > Len(route)
                    THEN /\ Dispatched(payload, TRUE)
                         /\ UNCHANGED <<blacklist, update_fail_htlc>>
                    ELSE /\ Dispatched(payload, FALSE)
                         /\ blacklist' = blacklist \cup
                                {route[sender_idx + 2].short_channel_id}
                         /\ update_fail_htlc' =
                                Put(update_fail_htlc, payload.channel_id,
                                    FailureString(payload.reason.code))
    /\ UNCHANGED <<transportVars, openVars, chanVars, revoke_and_ack, commitment_signed,
                   update_fulfill_htlc, attempted_route, pay_pc, pay_args,
                   fulfill_coro, failure_coro, engine_log, sideVars>>

\* the messages the counterparty may send while a payment is in flight
RevokePayloads ==
    { [type |-> "revoke_and_ack", channel_id |-> KnownChan,
       per_commitment_secret |-> s] : s \in {0, 1} }

FulfillPayloads ==
    { [type |-> "update_fulfill_htlc", channel_id |-> KnownChan, id |-> 0,
       payment_preimage |-> 1] }

CommitmentPayloads ==
    { [type |-> "commitment_signed", channel_id |-> KnownChan, signature |-> 1,
       htlc_signature |-> h] : h \in {0, 1} }

FailPayloads ==
    { [type |-> "update_fail_htlc", channel_id |-> KnownChan, id |-> 0,
       reason |-> [sender_idx |-> i, code |-> 4103]] : i \in {0, 1} }

\* an OPEN channel, main_loop running, and one call of pay
PayInit(chans, argss) ==
    /\ TransportInit(0, 0)
    /\ initialized = TRUE
    /\ loop_stopped = FALSE
    /\ main_pc = "loop"
    /\ inbound_n = 0
    /\ main_msg = [type |-> "none"]
    /\ OpenIdle
    /\ channels \in {KnownChan :> chan : chan \in chans}
    /\ channel_state = (KnownChan :> "OPEN")
    /\ saved = channels
    /\ channel_db = {BuriedShortId}
    /\ channel_reestablished = <<>>
    /\ reest_pc = "idle"
    /\ reest_suspended = FALSE
    /\ fl_calls = 0
    /\ revoke_and_ack = NoQueues
    /\ commitment_signed = NoQueues
    /\ update_fulfill_htlc = NoQueues
    /\ update_fail_htlc = NoQueues
    /\ attempted_route = <<>>
    /\ blacklist = {}
    /\ pay_pc = "start"
    /\ pay_args \in argss
    /\ fulfill_coro = NoTask
    /\ failure_coro = NoTask
    /\ engine_log = <<>>
    /\ SideIdle

InitPay ==
    PayInit({StoredChannel(0, 0, TRUE, BuriedShortId)},
            {[amount_msat |-> a, route |-> PayRoute] : a \in {0, 1}})

NextPay ==
    \/ \E payload \in RevokePayloads : RecvRevokeAndAck(payload)
    \/ \E payload \in FulfillPayloads : RecvUpdateFulfillHtlc(payload)
    \/ \E payload \in FailPayloads : RecvUpdateFailHtlc(payload)
    \/ \E payload \in CommitmentPayloads : RecvCommitmentSigned(payload)
    \/ PayStart
    \/ PayResume
    \/ PayRaceDone
    \/ FulfillGetter
    \/ FailureGetter

\* one payment over an OPEN channel and the dispatch loop feeding it
SpecPay == InitPay /\ [][NextPay]_vars

-----------------------------------------------------------------------------
(* Claims about the pay flow *)

\* the type of the k-th message the peer wrote
WrittenType(k) == written[k].msg.type

\* C9: the pay flow writes update_add_htlc, then commitment_signed, then
\* revoke_and_ack; when its revoke_and_ack is written the counterparty's
\* revoke_and_ack was taken from the queue and applied by the commitment engine
\* (receive_revocation before revoke_current_commitment, remote ctn advanced);
\* the two getter tasks for update_fulfill_htlc and update_fail_htlc exist only
\* after that
C9_AddCommitRevokeThenWait ==
    /\ Len(written) >= 1 => WrittenType(1) = "update_add_htlc"
    /\ Len(written) >= 2 => WrittenType(2) = "commitment_signed"
    /\ Len(written) >= 3 =>
          /\ WrittenType(3) = "revoke_and_ack"
          /\ Len(engine_log) >= 4
          /\ SubSeq(engine_log, 1, 4) = <<"add_htlc", "sign_next_commitment",
                                          "receive_revocation",
                                          "revoke_current_commitment">>
          /\ channels[KnownChan].remote_state.ctn >= 1
    /\ (fulfill_coro.st # "none" \/ failure_coro.st # "none" \/ pay_pc = "race")
          => Len(written) >= 3

\* the flow sent its three messages and waits for update_fulfill_htlc or
\* update_fail_htlc
C9_Witness ==
    /\ pay_pc = "race"
    /\ Len(written) = 3
    /\ WrittenType(3) = "revoke_and_ack"
    /\ fulfill_coro.st = "pending"
    /\ failure_coro.st = "pending"

\* the awaits of the fail path and of the fulfil path of pay
FailPath == {"fail_commit", "fail_revoke_1", "fail_revoke_2", "failed"}
FulfilPath == {"fulfill_commit", "fulfill_revoke", "fulfilled"}

\* C10: on neither path does the losing getter task hold a payload it took
\* from its queue: on the fail path fulfill_coro has taken nothing from
\* update_fulfill_htlc, on the fulfil path failure_coro has taken nothing from
\* update_fail_htlc
C10_LoserTakesNothing ==
    /\ pay_pc \in FailPath => fulfill_coro.st # "done"
    /\ pay_pc \in FulfilPath => failure_coro.st # "done"

\* C10 on the fulfil path alone: failure_coro is cancelled as soon as the flow
\* goes on, with nothing taken
C10_FulfilPathLoserCancelled ==
    pay_pc \in FulfilPath => failure_coro.st = "cancelled"

\* pay returned the failure while fulfill_coro holds an update_fulfill_htlc it
\* took from the queue: the payload is gone with the task
C10_Witness ==
    /\ pay_pc = "failed"
    /\ fulfill_coro.st = "done"
    /\ fulfill_coro.result.type = "update_fulfill_htlc"
    /\ update_fulfill_htlc[KnownChan] = <<>>

-----------------------------------------------------------------------------
(* The flow for a received htlc: on_update_add_htlc,
   receive_commitment_revoke_ack, receive_commitment *)

\* sha256 of a preimage
Sha256(preimage) == <<"sha256", preimage>>

\* lnworker.invoices: preimage -> the msat the decoded request asks for
Invoices == (1 :> [expected_received_msat |-> 1])

\* receive_commitment_revoke_ack, lines 924-931: none of the three asserts raises
RcraChecks_no_amount(htlc, expected_received_msat, chan, tag) ==
    /\ htlc.id = chan.remote_state.next_htlc_id
    /\ tag = "OPEN"

\* receive_commitment_revoke_ack, lines 924-931: none of the three asserts raises
RcraChecks(htlc, expected_received_msat, chan, tag) ==
    /\ htlc.id = chan.remote_state.next_htlc_id
    /\ tag = "OPEN"
    /\ htlc.amount_msat = expected_received_msat

\* the flow's view of the peer, as PayState, with its own locals
RcraState == ("locals" :> rcra_locals) @@ [PayState EXCEPT !.pc = rcra_pc]

RECURSIVE RcraRun(_)
\* receive_commitment_revoke_ack from the await it is at to the next await that
\* has to wait, to its return or to its raise
RcraRun(st) ==
    LET cid == st.chan.channel_id
    IN
    CASE st.pc \in {"rcra_commit_1", "rcra_commit_2"} ->     \* lines 938-946, 959-963
            IF ~CanGet(st.commitment_signed, cid)
            THEN [st EXCEPT !.commitment_signed = Touch(@, cid)]
            ELSE LET m  == Head(st.commitment_signed[cid])
                     s1 == [st EXCEPT !.commitment_signed = Pop(@, cid),
                                      !.locals.commitments = Append(@, m)]
                     want == IF st.pc = "rcra_commit_1" THEN 1 ELSE 0
                 IN  IF ~SigAccepted(m.signature)
                     THEN [s1 EXCEPT !.pc = "raised"]
                     ELSE IF m.htlc_signature # want
                     THEN [Engine(s1, "receive_new_commitment") EXCEPT !.pc = "raised"]
                     ELSE IF st.pc = "rcra_commit_1"
                     THEN RcraRun([Sent(Engine(revoke(Engine(s1, "receive_new_commitment")),
                                               "sign_next_commitment"),
                                        [type |-> "commitment_signed", channel_id |-> cid,
                                         num_htlcs |-> 1])
                                   EXCEPT !.pc = "rcra_revoke_1"])
                     ELSE [revoke(Engine(s1, "receive_new_commitment")) EXCEPT
                             !.saved = [@ EXCEPT ![cid] =
                                 EngineCall(s1.chan, "revoke_current_commitment")],
                             !.pc = "done"]
      [] st.pc \in {"rcra_revoke_1", "rcra_revoke_2"} ->     \* lines 946-957
            IF ~CanGet(st.revoke_and_ack, cid)
            THEN [st EXCEPT !.revoke_and_ack = Touch(@, cid)]
            ELSE LET s1 == receive_revoke(st)
                 IN  IF s1.pc = "raised" THEN s1
                     ELSE IF st.pc = "rcra_revoke_2"
                     THEN RcraRun([s1 EXCEPT !.pc = "rcra_commit_2"])
                     ELSE RcraRun(
                            [Sent(Engine(Sent(Engine(s1, "settle_htlc"),
                                              [type |-> "update_fulfill_htlc",
                                               channel_id |-> cid,
                                               id |-> st.locals.htlc.id,
                                               payment_preimage |-> st.locals.preimage]),
                                         "make_commitment"),
                                  [type |-> "commitment_signed", channel_id |-> cid,
                                   num_htlcs |-> 0])
                             EXCEPT !.pc = "rcra_revoke_2"])
      [] OTHER -> st

\* the peer after receive_commitment_revoke_ack ran to st; aiosafe stops the
\* loop on a raise
RcraRan(st) ==
    /\ rcra_pc' = st.pc
    /\ rcra_locals' = st.locals
    /\ channels' = [channels EXCEPT ![KnownChan] = st.chan]
    /\ send_messages(st.out)
    /\ engine_log' = st.log
    /\ revoke_and_ack' = st.revoke_and_ack
    /\ commitment_signed' = st.commitment_signed
    /\ saved' = st.saved
    /\ loop_stopped' = (st.pc = "raised")
    /\ UNCHANGED <<rxVars, initialized, main_pc, inbound_n, main_msg, openVars,
                   channel_state, channel_db, channel_reestablished, reest_pc,
                   reest_suspended, fl_calls, update_fulfill_htlc, update_fail_htlc,
                   attempted_route, blacklist, pay_pc, pay_args, fulfill_coro,
                   failure_coro, annVars, pingVars>>

\* Peer.on_update_add_htlc(payload): the invoice whose preimage hashes to the
\* payment hash is looked up and receive_commitment_revoke_ack scheduled for it
RecvUpdateAddHtlc(payload) ==
    /\ CanDispatchPay
    /\ rcra_pc = "idle"
    /\ LET found == {k \in DOMAIN Invoices : Sha256(k) = payload.payment_hash}
       IN  IF found = {}
           THEN Dispatched(payload, TRUE) /\ UNCHANGED recvVars
           ELSE LET preimage == CHOOSE k \in found : TRUE
                IN  /\ Dispatched(payload, FALSE)
                    /\ rcra_pc' = "start"
                    /\ rcra_locals' = [htlc |-> payload,
                                       expected_received_msat |->
                                           Invoices[preimage].expected_received_msat,
                                       preimage |-> preimage,
                                       commitments |-> <<>>]
    /\ UNCHANGED <<transportVars, openVars, chanVars, payVars, annVars, pingVars>>

\* receive_commitment_revoke_ack, lines 920-938
RcraStart ==
    /\ ~loop_stopped
    /\ rcra_pc = "start"
    /\ LET htlc == rcra_locals.htlc
       IN  IF \/ htlc.channel_id \notin DOMAIN channels
              \/ ~RcraChecks(htlc, rcra_locals.expected_received_msat,
                             channels[htlc.channel_id], channel_state[htlc.channel_id])
           THEN RcraRan([RcraState EXCEPT !.pc = "raised"])
           ELSE RcraRan(RcraRun([Engine(RcraState, "receive_htlc") EXCEPT
                                   !.pc = "rcra_commit_1"]))

\* receive_commitment_revoke_ack woken at an await
RcraResume ==
    /\ ~loop_stopped
    /\ \/ /\ rcra_pc \in {"rcra_revoke_1", "rcra_revoke_2"}
          /\ CanGet(revoke_and_ack, KnownChan)
       \/ /\ rcra_pc \in {"rcra_commit_1", "rcra_commit_2"}
          /\ CanGet(commitment_signed, KnownChan)
    /\ RcraRan(RcraRun(RcraState))

\* the update_add_htlc and commitment_signed messages the counterparty may send
AddHtlcPayloads ==
    { [type |-> "update_add_htlc", channel_id |-> KnownChan, id |-> i,
       amount_msat |-> a, payment_hash |-> Sha256(p)] :
      <<i, a, p>> \in {<<0, 1, 1>>, <<1, 1, 1>>, <<0, 2, 1>>, <<0, 1, 2>>} }

SignedPayloads ==
    { [type |-> "commitment_signed", channel_id |-> KnownChan, signature |-> g,
       htlc_signature |-> h] :
      <<g, h>> \in {<<1, 0>>, <<1, 1>>, <<1, 2>>, <<3, 1>>} }

\* an OPEN channel, main_loop running after the init it read, pay called or not
InitHtlc ==
    /\ TransportInit(0, 0)
    /\ initialized = TRUE
    /\ loop_stopped = FALSE
    /\ main_pc = "loop"
    /\ inbound_n = 1
    /\ main_msg = [type |-> "init"]
    /\ OpenIdle
    /\ channels = (KnownChan :> StoredChannel(0, 0, TRUE, BuriedShortId))
    /\ channel_state = (KnownChan :> "OPEN")
    /\ saved = channels
    /\ channel_db = {BuriedShortId}
    /\ channel_reestablished = <<>>
    /\ reest_pc = "idle"
    /\ reest_suspended = FALSE
    /\ fl_calls = 0
    /\ revoke_and_ack = NoQueues
    /\ commitment_signed = NoQueues
    /\ update_fulfill_htlc = NoQueues
    /\ update_fail_htlc = NoQueues
    /\ attempted_route = <<>>
    /\ blacklist = {}
    /\ pay_pc \in {"idle", "start"}
    /\ pay_args = [amount_msat |-> 1, route |-> PayRoute]
    /\ fulfill_coro = NoTask
    /\ failure_coro = NoTask
    /\ engine_log = <<>>
    /\ SideIdle

NextHtlc ==
    \/ \E payload \in AddHtlcPayloads : RecvUpdateAddHtlc(payload)
    \/ \E payload \in SignedPayloads : RecvCommitmentSigned(payload)
    \/ \E payload \in RevokePayloads : RecvRevokeAndAck(payload)
    \/ RcraStart
    \/ RcraResume
    \/ PayStart
    \/ PayResume

\* a received htlc, and a payment of ours on the same channel
SpecHtlc == InitHtlc /\ [][NextHtlc]_vars

-----------------------------------------------------------------------------
(* Claims about the htlc flows *)

\* pay is suspended at one of its awaits
PayInFlight ==
    pay_pc \in {"revoke_1", "race", "fail_commit", "fail_revoke_1", "fail_revoke_2",
                "fulfill_commit", "fulfill_revoke"}

\* receive_commitment_revoke_ack is suspended at one of its awaits
RcraInFlight ==
    rcra_pc \in {"rcra_commit_1", "rcra_revoke_1", "rcra_revoke_2", "rcra_commit_2"}

\* C11: at most one htlc flow is in flight for the channel: pay and
\* receive_commitment_revoke_ack are never both suspended on it, so they never
\* wait together on its revoke_and_ack or commitment_signed queue
C11_OneFlowPerChannel == ~(PayInFlight /\ RcraInFlight)

\* pay and receive_commitment_revoke_ack both wait for a revoke_and_ack of the
\* same channel
C11_Witness ==
    /\ pay_pc = "revoke_1"
    /\ rcra_pc = "rcra_revoke_1"
    /\ KnownChan \in DOMAIN revoke_and_ack
    /\ revoke_and_ack[KnownChan] = <<>>

RECURSIVE InOrder(_, _)
\* the elements of pat occur in seq in this order
InOrder(seq, pat) ==
    IF pat = <<>> THEN TRUE
    ELSE IF seq = <<>> THEN FALSE
    ELSE IF Head(seq) = Head(pat) THEN InOrder(Tail(seq), Tail(pat))
    ELSE InOrder(Tail(seq), pat)

\* the messages the peer wrote, as type and number of htlc signatures
WrittenKinds ==
    [i \in 1..Len(written) |->
        <<written[i].msg.type,
          IF written[i].msg.type = "commitment_signed"
          THEN written[i].msg.num_htlcs ELSE 0>>]

\* C12: when update_fulfill_htlc has been written, the htlc's amount equals the
\* invoice's expected msat, its id was the remote next_htlc_id, the first
\* commitment_signed the flow took carried one htlc signature and was accepted,
\* and receive_htlc, the accepted commitment, our revocation, our signature, the
\* counterparty's revocation and the settlement happened in this order, as did
\* our revoke_and_ack, our commitment_signed with one htlc and the
\* update_fulfill_htlc on the wire
C12_FulfillAfterChecks ==
    (\E i \in 1..Len(written) : written[i].msg.type = "update_fulfill_htlc")
    => /\ rcra_locals.htlc.amount_msat = rcra_locals.expected_received_msat
       /\ rcra_locals.htlc.id + 1 = channels[KnownChan].remote_state.next_htlc_id
       /\ Len(rcra_locals.commitments) >= 1
       /\ rcra_locals.commitments[1].htlc_signature = 1
       /\ rcra_locals.commitments[1].signature \in {1, 2}
       /\ InOrder(engine_log, <<"receive_htlc", "receive_new_commitment",
                                "revoke_current_commitment", "sign_next_commitment",
                                "receive_revocation", "settle_htlc">>)
       /\ InOrder(WrittenKinds, << <<"revoke_and_ack", 0>>, <<"commitment_signed", 1>>,
                                   <<"update_fulfill_htlc", 0>> >>)

\* the flow sent update_fulfill_htlc and waits for the next revoke_and_ack, no
\* payment of ours being in flight
C12_Witness ==
    /\ rcra_pc = "rcra_revoke_2"
    /\ pay_pc = "idle"
    /\ Len(written) = 4
    /\ written[3].msg.type = "update_fulfill_htlc"
    /\ written[3].msg.payment_preimage = 1

-----------------------------------------------------------------------------
(* A payment that fails: on_update_fail_htlc on routes of several lengths *)

\* hops of the longest route
MaxHops == 3

\* failure codes: UPDATE|7, NODE|2, BADONION|PERM|5
FailCodes == {4103, 8194, 49157}

\* the update_fail_htlc messages the counterparty may send: the onion error
\* names any hop of the longest route as its sender
FailCodePayloads ==
    { [type |-> "update_fail_htlc", channel_id |-> KnownChan, id |-> 0,
       reason |-> [sender_idx |-> i, code |-> c]] :
      i \in 0..(MaxHops - 1), c \in FailCodes }

\* an OPEN channel, main_loop running after the init it read, and one call of
\* pay over a route of one to MaxHops hops
InitFail ==
    /\ TransportInit(0, 0)
    /\ initialized = TRUE
    /\ loop_stopped = FALSE
    /\ main_pc = "loop"
    /\ inbound_n = 1
    /\ main_msg = [type |-> "init"]
    /\ OpenIdle
    /\ channels = (KnownChan :> StoredChannel(0, 0, TRUE, BuriedShortId))
    /\ channel_state = (KnownChan :> "OPEN")
    /\ saved = channels
    /\ channel_db = {BuriedShortId}
    /\ channel_reestablished = <<>>
    /\ reest_pc = "idle"
    /\ reest_suspended = FALSE
    /\ fl_calls = 0
    /\ revoke_and_ack = NoQueues
    /\ commitment_signed = NoQueues
    /\ update_fulfill_htlc = NoQueues
    /\ update_fail_htlc = NoQueues
    /\ attempted_route = <<>>
    /\ blacklist = {}
    /\ pay_pc = "start"
    /\ pay_args \in {[amount_msat |-> 1, route |-> Route(n)] : n \in 1..MaxHops}
    /\ fulfill_coro = NoTask
    /\ failure_coro = NoTask
    /\ engine_log = <<>>
    /\ SideIdle

NextFail ==
    \/ \E payload \in {p \in RevokePayloads : RevocationAccepted(p)} :
          RecvRevokeAndAck(payload)
    \/ \E payload \in FailCodePayloads : RecvUpdateFailHtlc(payload)
    \/ PayStart
    \/ PayResume
    \/ PayRaceDone
    \/ FailureGetter

\* one payment and the failures reported for it
SpecFail == InitFail /\ [][NextFail]_vars

\* this step dispatches an update_fail_htlc for a recorded route attempt
FailDispatched ==
    /\ inbound_n' = inbound_n + 1
    /\ main_msg'.type = "update_fail_htlc"
    /\ <<main_msg'.channel_id, main_msg'.id>> \in DOMAIN attempted_route

\* the failure strings queued for channel c
FailQueue(d, c) == IF c \in DOMAIN d THEN d[c] ELSE <<>>

\* C13: every update_fail_htlc for a recorded route attempt, whichever hop the
\* onion error names, is handled without error and puts exactly one failure
\* string on the channel's update_fail_htlc queue, and the next hop's short
\* channel id, when there is a next hop, is blacklisted
C13_FailAlwaysEnqueued ==
    [][ FailDispatched =>
          LET m == main_msg'
              route == attempted_route[<<m.channel_id, m.id>>]
          IN  /\ ~loop_stopped'
              /\ Len(FailQueue(update_fail_htlc', m.channel_id))
                     = Len(FailQueue(update_fail_htlc, m.channel_id)) + 1
              /\ m.reason.sender_idx + 2 <= Len(route) =>
                     route[m.reason.sender_idx + 2].short_channel_id \in blacklist'
      ]_vars

\* C13 for the hops that have a next hop: the handler completes, enqueues one
\* failure string and blacklists the next hop's short channel id
C13_FailEnqueuedWhenNextHop ==
    [][ FailDispatched =>
          LET m == main_msg'
              route == attempted_route[<<m.channel_id, m.id>>]
          IN  m.reason.sender_idx + 2 <= Len(route) =>
              /\ ~loop_stopped'
              /\ Len(FailQueue(update_fail_htlc', m.channel_id))
                    = Len(FailQueue(update_fail_htlc, m.channel_id)) + 1
              /\ route[m.reason.sender_idx + 2].short_channel_id \in blacklist'
      ]_vars

\* the final hop of a three-hop route reported the failure: the handler raised,
\* nothing was enqueued and pay still waits for update_fulfill_htlc or
\* update_fail_htlc
C13_Witness ==
    /\ main_msg.type = "update_fail_htlc"
    /\ Len(pay_args.route) = 3
    /\ main_msg.reason.sender_idx = 2
    /\ loop_stopped
    /\ pay_pc = "race"
    /\ failure_coro.st = "pending"
    /\ update_fail_htlc[KnownChan] = <<>>

\* this step dispatches an update_fail_htlc with code 0x1007 that the first
\* node of a three-hop route reported
Fail1007Dispatched ==
    /\ FailDispatched
    /\ Len(attempted_route[<<main_msg'.channel_id, main_msg'.id>>]) = 3
    /\ main_msg'.reason.code = 4103
    /\ main_msg'.reason.sender_idx = 0

\* the failure string the handler put last on the channel's queue
LastFailure == update_fail_htlc'[KnownChan][Len(update_fail_htlc'[KnownChan])]

\* C14 as claimed: for a route of three hops and code 0x1007 the handler
\* blacklists the short channel id of hop 2 and enqueues
\* "HTLC failure with code 4103 (categories ['NODE', 'UPDATE'])"
C14_Code1007NodeUpdate ==
    [][ Fail1007Dispatched =>
          /\ attempted_route[<<KnownChan, 0>>][2].short_channel_id \in blacklist'
          /\ LastFailure = <<"HTLC failure with code", 4103,
                             "categories", <<"NODE", "UPDATE">> >>
      ]_vars

\* C14 as the code has it: for a route of three hops and code 0x1007 reported
\* by the first node, the handler blacklists the short channel id of hop 2 and
\* enqueues "HTLC failure with code 4103 (categories ['UPDATE'])"
C14_Code1007Update ==
    [][ Fail1007Dispatched =>
          /\ ~loop_stopped'
          /\ attempted_route[<<KnownChan, 0>>][2].short_channel_id \in blacklist'
          /\ blacklist' = blacklist \cup {BuriedShortId + 1}
          /\ LastFailure = <<"HTLC failure with code", 4103,
                             "categories", <<"UPDATE">> >>
      ]_vars

\* code 0x1007 from the first node of a three-hop route was dispatched and its
\* failure string reached pay
C14_Witness ==
    /\ Len(pay_args.route) = 3
    /\ main_msg.type = "update_fail_htlc"
    /\ main_msg.reason.code = 4103
    /\ main_msg.reason.sender_idx = 0
    /\ blacklist = {BuriedShortId + 1}
    /\ failure_coro.st = "done"
    /\ failure_coro.result[2] = 4103

-----------------------------------------------------------------------------
(* Claims about messages nobody waits for *)

\* the pending-exchange queues of the message kinds that answer a flow
ExchangeQueues ==
    [accept_channel |-> channel_accepted,
     funding_signed |-> funding_signed,
     revoke_and_ack |-> revoke_and_ack,
     commitment_signed |-> commitment_signed,
     update_fulfill_htlc |-> update_fulfill_htlc,
     announcement_signatures |-> announcement_signatures]

\* the id that keys message m in its queue
ExchangeKey(m) ==
    IF m.type = "accept_channel" THEN m.temporary_channel_id ELSE m.channel_id

\* this step dispatches a message of one of the six kinds whose id has no queue
UnknownKeyDispatched ==
    /\ inbound_n' = inbound_n + 1
    /\ main_msg'.type \in DOMAIN ExchangeQueues
    /\ ExchangeKey(main_msg') \notin DOMAIN ExchangeQueues[main_msg'.type]

\* C15: a message of one of the six kinds whose (temporary) channel id has no
\* pending exchange is rejected: the handler raises, the message is not
\* enqueued and no queue is created for the id
C15_UnknownKeyRejected ==
    [][ UnknownKeyDispatched => (loop_stopped' /\ ExchangeQueues' = ExchangeQueues) ]_vars

\* C15 for accept_channel and funding_signed alone
C15_OpenUnknownKeyRejected ==
    [][ (UnknownKeyDispatched /\ main_msg'.type \in {"accept_channel", "funding_signed"})
        => (loop_stopped' /\ ExchangeQueues' = ExchangeQueues) ]_vars

\* a revoke_and_ack arrived before any flow waited for one: it sits in a queue
\* made for it and the loop goes on
C15_Witness ==
    /\ pay_pc = "start"
    /\ inbound_n = 1
    /\ main_msg.type = "revoke_and_ack"
    /\ ~loop_stopped
    /\ KnownChan \in DOMAIN revoke_and_ack
    /\ Len(revoke_and_ack[KnownChan]) = 1

-----------------------------------------------------------------------------
(* The announcement of a channel: Peer.on_network_update,                   *)
(* Peer.handle_announcements, Peer.on_announcement_signatures               *)

\* the funding depth from which a channel is announced
AnnounceDepth == 6

\* a signature over the announcement digest, named by the key that made it
SignedBy(key) == <<"sig", key>>

\* ecc.verify_signature(pubkey, sig, h)
verify_signature(pubkey, sig) == sig = SignedBy(pubkey)

\* Peer.send_announcement_signatures(chan): the message it sends
OurAnnouncementSignatures(chan) ==
    [type |-> "announcement_signatures",
     channel_id |-> chan.channel_id,
     short_channel_id |-> chan.short_channel_id,
     node_signature |-> SignedBy("local_node"),
     bitcoin_signature |-> SignedBy("local_multisig")]

\* handle_announcements with only the bitcoin signature verified
AnnouncementError_bitcoin_only(msg) ==
    IF ~verify_signature("remote_multisig", msg.bitcoin_signature)
    THEN "bitcoin_sig invalid in announcement_signatures"
    ELSE "none"

\* handle_announcements, lines 710-715: the exception raised on the remote's
\* announcement_signatures msg, "none" when both signatures verify
AnnouncementError(msg) ==
    IF ~verify_signature("remote_multisig", msg.bitcoin_signature)
    THEN "bitcoin_sig invalid in announcement_signatures"
    ELSE IF ~verify_signature("remote_node", msg.node_signature)
         THEN "node_sig invalid in announcement_signatures"
         ELSE "none"

\* handle_announcements, lines 717-741: the channel_announcement, the lists
\* reversed together when our node id is the greater one
ChannelAnnouncement(chan, msg) ==
    LET node_sigs == <<SignedBy("local_node"), msg.node_signature>>
        bitcoin_sigs == <<SignedBy("local_multisig"), msg.bitcoin_signature>>
        bitcoin_keys == <<"local_multisig", "remote_multisig">>
        i == IF node_ids[1] > node_ids[2] THEN 2 ELSE 1
        j == 3 - i
    IN  [type |-> "channel_announcement",
         node_signatures_1 |-> node_sigs[i], node_signatures_2 |-> node_sigs[j],
         bitcoin_signature_1 |-> bitcoin_sigs[i], bitcoin_signature_2 |-> bitcoin_sigs[j],
         short_channel_id |-> chan.short_channel_id,
         node_id_1 |-> node_ids[i], node_id_2 |-> node_ids[j],
         bitcoin_key_1 |-> bitcoin_keys[i], bitcoin_key_2 |-> bitcoin_keys[j]]

\* Peer.on_network_update(chan, funding_tx_depth), on the network thread, which
\* may run between any two steps of the event loop's thread; one
\* handle_announcements is followed at a time
NetworkUpdate(funding_tx_depth) ==
    /\ ~loop_stopped
    /\ channel_state[KnownChan] = "OPEN"
    /\ LET chan == channels[KnownChan]
       IN  IF ~chan.local_state.was_announced /\ funding_tx_depth >= AnnounceDepth
           THEN /\ ann_pc \in {"idle", "done"}
                /\ channels' = [channels EXCEPT ![KnownChan].local_state.was_announced = TRUE]
                /\ saved' = [saved EXCEPT ![KnownChan] = channels'[KnownChan]]
                /\ ann_pc' = "start"
           ELSE UNCHANGED <<channels, saved, ann_pc>>
    /\ UNCHANGED <<transportVars, loopVars, openVars, channel_state, channel_db,
                   channel_reestablished, reest_pc, reest_suspended, fl_calls, payVars,
                   recvVars, announcement_signatures, node_ids, handler_locals,
                   pingVars>>

\* handle_announcements, lines 710-745: from the payload the queue returned,
\* after the messages out were sent
AnnounceFinish(chan, out) ==
    LET msg == Head(announcement_signatures[chan.channel_id])
        error == AnnouncementError(msg)
    IN  /\ announcement_signatures' = Pop(announcement_signatures, chan.channel_id)
        /\ IF error # "none"
           THEN /\ send_messages(out)
                /\ ann_pc' = "raised"
                /\ loop_stopped' = TRUE
           ELSE /\ send_messages(out \o <<ChannelAnnouncement(chan, msg)>>)
                /\ ann_pc' = "done"
                /\ loop_stopped' = loop_stopped

\* handle_announcements, lines 708-709: our announcement_signatures are sent,
\* then the flow takes the counterparty's from the queue or waits for them
AnnounceStart ==
    /\ ~loop_stopped
    /\ main_pc # "handler"
    /\ ann_pc = "start"
    /\ LET chan == channels[KnownChan]
           ours == OurAnnouncementSignatures(chan)
       IN  IF CanGet(announcement_signatures, chan.channel_id)
           THEN AnnounceFinish(chan, <<ours>>)
           ELSE /\ send_message(ours)
                /\ announcement_signatures' = Touch(announcement_signatures, chan.channel_id)
                /\ ann_pc' = "await"
                /\ loop_stopped' = loop_stopped
    /\ UNCHANGED <<rxVars, initialized, main_pc, inbound_n, main_msg, openVars, chanVars,
                   payVars, recvVars, node_ids, handler_locals, pingVars>>

\* handle_announcements woken by the queue
AnnounceResume ==
    /\ ~loop_stopped
    /\ main_pc # "handler"
    /\ ann_pc = "await"
    /\ CanGet(announcement_signatures, KnownChan)
    /\ AnnounceFinish(channels[KnownChan], <<>>)
    /\ UNCHANGED <<rxVars, initialized, main_pc, inbound_n, main_msg, openVars, chanVars,
                   payVars, recvVars, node_ids, handler_locals, pingVars>>

\* Peer.on_announcement_signatures(payload)
RecvAnnouncementSignatures(payload) ==
    /\ CanDispatch
    /\ main_pc # "handler"
    /\ LET channel_id == payload.channel_id
       IN  IF channel_id \notin DOMAIN channels
           THEN /\ Dispatched(payload, TRUE)
                /\ UNCHANGED <<_sn, sk, s_ck, written, aead_ops, calls,
                               announcement_signatures>>
           ELSE /\ Dispatched(payload, FALSE)
                /\ IF channels[channel_id].local_state.was_announced
                   THEN /\ send_message(OurAnnouncementSignatures(channels[channel_id]))
                        /\ UNCHANGED announcement_signatures
                   ELSE /\ announcement_signatures' =
                               Put(announcement_signatures, channel_id, payload)
                        /\ UNCHANGED <<_sn, sk, s_ck, written, aead_ops, calls>>
    /\ UNCHANGED <<rxVars, openVars, chanVars, payVars, recvVars, ann_pc, node_ids,
                   handler_locals, pingVars>>

\* Peer.on_commitment_signed(payload), lines 967-969: the handler has read
\* chan.local_state and built its replacement; the network thread may run
\* before the replacement is stored
CommitmentSignedRead(payload) ==
    /\ CanDispatch
    /\ main_pc = "loop"
    /\ payload.channel_id \in DOMAIN channels
    /\ main_pc' = "handler"
    /\ handler_locals' =
           [payload |-> payload,
            local_state |-> [channels[payload.channel_id].local_state EXCEPT
                               !.current_commitment_signature = payload.signature]]
    /\ UNCHANGED <<transportVars, initialized, loop_stopped, inbound_n, main_msg, openVars,
                   chanVars, payVars, recvVars, announcement_signatures, ann_pc, node_ids,
                   pingVars>>

\* Peer.on_commitment_signed, lines 969-971: the replacement is stored, the
\* channel saved and the payload enqueued
CommitmentSignedWrite ==
    /\ ~loop_stopped
    /\ main_pc = "handler"
    /\ LET payload == handler_locals.payload
           channel_id == payload.channel_id
       IN  /\ channels' = [channels EXCEPT
                              ![channel_id].local_state = handler_locals.local_state]
           /\ saved' = [saved EXCEPT ![channel_id] = channels'[channel_id]]
           /\ commitment_signed' = Put(commitment_signed, channel_id, payload)
           /\ Dispatched(payload, FALSE)
    /\ handler_locals' = NoLocals
    /\ UNCHANGED <<transportVars, openVars, channel_state, channel_db,
                   channel_reestablished, reest_pc, reest_suspended, fl_calls,
                   revoke_and_ack, update_fulfill_htlc, update_fail_htlc, attempted_route,
                   blacklist, pay_pc, pay_args, fulfill_coro, failure_coro, engine_log,
                   recvVars, announcement_signatures, ann_pc, node_ids, pingVars>>

\* the announcement_signatures the counterparty may send: for the channel, with
\* each signature made by the right key or by the other one; and for a channel
\* we do not have
AnnouncementPayloads ==
    { [type |-> "announcement_signatures", channel_id |-> KnownChan,
       short_channel_id |-> BuriedShortId,
       node_signature |-> SignedBy(n), bitcoin_signature |-> SignedBy(b)] :
      n \in {"remote_node", "remote_multisig"}, b \in {"remote_node", "remote_multisig"} }
    \cup
    { [type |-> "announcement_signatures", channel_id |-> UnknownChan,
       short_channel_id |-> BuriedShortId,
       node_signature |-> SignedBy("remote_node"),
       bitcoin_signature |-> SignedBy("remote_multisig")] }

\* an OPEN channel not announced yet, main_loop running after the init it read
InitAnnounce ==
    /\ TransportInit(0, 0)
    /\ initialized = TRUE
    /\ loop_stopped = FALSE
    /\ main_pc = "loop"
    /\ inbound_n = 1
    /\ main_msg = [type |-> "init"]
    /\ OpenIdle
    /\ channels = (KnownChan :> StoredChannel(0, 0, TRUE, BuriedShortId))
    /\ channel_state = (KnownChan :> "OPEN")
    /\ saved = channels
    /\ channel_db = {BuriedShortId}
    /\ channel_reestablished = <<>>
    /\ reest_pc = "idle"
    /\ reest_suspended = FALSE
    /\ fl_calls = 0
    /\ PayIdle
    /\ rcra_pc = "idle"
    /\ rcra_locals = [htlc |-> 0, expected_received_msat |-> 0]
    /\ announcement_signatures = NoQueues
    /\ ann_pc = "idle"
    /\ node_ids \in {<<1, 2>>, <<2, 1>>}
    /\ handler_locals = NoLocals
    /\ now = 0
    /\ ping_time = 0
    /\ sent_at = <<>>

NextAnnounce ==
    \/ \E funding_tx_depth \in {AnnounceDepth - 1, AnnounceDepth} :
          NetworkUpdate(funding_tx_depth)
    \/ \E payload \in AnnouncementPayloads : RecvAnnouncementSignatures(payload)
    \/ \E payload \in SignedPayloads : CommitmentSignedRead(payload)
    \/ CommitmentSignedWrite
    \/ AnnounceStart
    \/ AnnounceResume

\* the announcement of one channel
SpecAnnounce == InitAnnounce /\ [][NextAnnounce]_vars

\* handle_announcements is scheduled, or its queue has something for it, and
\* the event loop is free to run it
AnnounceRunnable ==
    /\ ~loop_stopped
    /\ main_pc # "handler"
    /\ \/ ann_pc = "start"
       \/ ann_pc = "await" /\ CanGet(announcement_signatures, KnownChan)

\* a step of handle_announcements, told by its position, which only
\* AnnounceStart and AnnounceResume move
AnnounceMoves == AnnounceRunnable /\ ann_pc' \in {"await", "done", "raised"}

\* the same with the event loop running a flow that can run, and the thread of
\* the event loop finishing the handler it is in
SpecAnnounceFair ==
    /\ SpecAnnounce
    /\ WF_ann_pc(AnnounceMoves)
    /\ WF_vars(CommitmentSignedWrite)

-----------------------------------------------------------------------------
(* Claims about the announcement *)

\* both signatures of announcement_signatures m were made by the counterparty's
\* keys: the node signature by its node key, the bitcoin signature by its
\* multisig key
BothVerify(m) ==
    /\ m.node_signature = SignedBy("remote_node")
    /\ m.bitcoin_signature = SignedBy("remote_multisig")

\* the channel_announcement messages written so far, by position
AnnouncementsWritten ==
    {i \in DOMAIN written : written[i].msg.type = "channel_announcement"}

\* the message dispatched last is the counterparty's announcement_signatures
\* for the channel, with two valid signatures
ValidSignaturesDelivered ==
    /\ main_msg.type = "announcement_signatures"
    /\ main_msg.channel_id = KnownChan
    /\ BothVerify(main_msg)

\* C16: once a depth of AnnounceDepth was reported for the unannounced channel
\* (handle_announcements was scheduled or runs) and the counterparty's valid
\* announcement_signatures were dispatched, in either order, the
\* channel_announcement is eventually written, unless an exception stopped the
\* event loop
C16_AnnouncedEitherOrder ==
    (ann_pc \in {"start", "await"} /\ ValidSignaturesDelivered)
        ~> (AnnouncementsWritten # {} \/ loop_stopped)

\* C16 when the counterparty's signatures were queued, which happens only when
\* they are dispatched while was_announced is FALSE: the flow ends, with the
\* announcement written or an exception, unless another exception stopped the
\* event loop
C16_AnnouncedWhenQueued ==
    (ann_pc \in {"start", "await"} /\ CanGet(announcement_signatures, KnownChan))
        ~> (ann_pc \in {"done", "raised"} \/ loop_stopped)

\* C16, why the flow is not woken: announcement_signatures dispatched while
\* was_announced is TRUE are answered with ours and never queued
C16_DroppedWhileAnnounced ==
    [][ (/\ inbound_n' = inbound_n + 1
         /\ main_msg'.type = "announcement_signatures"
         /\ main_msg'.channel_id = KnownChan
         /\ channels[KnownChan].local_state.was_announced)
        => (/\ announcement_signatures' = announcement_signatures
            /\ Len(written') = Len(written) + 1
            /\ written'[Len(written')].msg.type = "announcement_signatures") ]_vars

\* the depth was reported first, the flow sent our signatures and waits; the
\* counterparty's valid signatures were dispatched then, answered by our
\* signatures once more and not queued
C16_Witness ==
    /\ ann_pc = "await"
    /\ ValidSignaturesDelivered
    /\ channels[KnownChan].local_state.was_announced
    /\ announcement_signatures[KnownChan] = <<>>
    /\ ~loop_stopped
    /\ main_pc = "loop"
    /\ Len(written) = 2
    /\ written[2].msg.type = "announcement_signatures"

\* the counterparty's signatures in the k-th message written, a
\* channel_announcement: they are second unless our node id is the greater one
RemoteSignaturesIn(k) ==
    LET m == written[k].msg
    IN  IF node_ids[1] > node_ids[2]
        THEN [node_signature |-> m.node_signatures_1,
              bitcoin_signature |-> m.bitcoin_signature_1]
        ELSE [node_signature |-> m.node_signatures_2,
              bitcoin_signature |-> m.bitcoin_signature_2]

\* every channel_announcement written carries the counterparty's two signatures
\* made by its node key and its multisig key
AnnouncedOnlyVerified ==
    \A k \in AnnouncementsWritten : BothVerify(RemoteSignaturesIn(k))

\* this step takes from the queue an announcement_signatures of which a
\* signature does not verify
InvalidSignaturesTaken ==
    /\ CanGet(announcement_signatures, KnownChan)
    /\ announcement_signatures' = Pop(announcement_signatures, KnownChan)
    /\ ~BothVerify(Head(announcement_signatures[KnownChan]))

\* C17 as stated: a channel_announcement is written only with both signatures
\* of the counterparty verified; when one does not verify no channel_announcement
\* is written and nothing but the announcement is given up: the event loop
\* keeps running
C17_OnlyAnnouncementAborted ==
    /\ []AnnouncedOnlyVerified
    /\ [][ InvalidSignaturesTaken =>
             (AnnouncementsWritten' = AnnouncementsWritten /\ ~loop_stopped') ]_vars

\* C17 as the code has it: a channel_announcement is written only with both
\* signatures of the counterparty verified; when one does not verify no
\* channel_announcement is written and the exception stops the event loop
C17_InvalidSignatureStopsLoop ==
    /\ []AnnouncedOnlyVerified
    /\ [][ InvalidSignaturesTaken =>
             (AnnouncementsWritten' = AnnouncementsWritten /\ loop_stopped'
              /\ ann_pc' = "raised") ]_vars

\* the flow took signatures of which the node signature does not verify and
\* raised
C17_Witness ==
    /\ ann_pc = "raised"
    /\ loop_stopped
    /\ AnnouncementsWritten = {}
    /\ main_msg.type = "announcement_signatures"
    /\ main_msg.bitcoin_signature = SignedBy("remote_multisig")
    /\ main_msg.node_signature # SignedBy("remote_node")

\* the flow verified both signatures and wrote the channel_announcement
C17_WitnessAnnounced ==
    /\ ann_pc = "done"
    /\ AnnouncementsWritten # {}
    /\ ~loop_stopped

-----------------------------------------------------------------------------
(* Claims about read_message *)

RECURSIVE BytesFrom(_)
\* the bytes of the inbound wire from its f-th frame on
BytesFrom(f) ==
    IF f > Len(wire) THEN <<>> ELSE FrameBytes(f, wire[f].size) \o BytesFrom(f + 1)

\* a is the beginning of b
IsPrefix(a, b) == Len(a) <= Len(b) /\ a = SubSeq(b, 1, Len(a))

\* the buffer holds the whole message that follows the k messages returned
HoldsMessage(k) ==
    /\ Len(read_buffer) >= LenFrame
    /\ Len(read_buffer) >= LenFrame + wire[2 * k + 1].pt[1] + TagLen

\* while no tag failed: the messages returned are the payloads the counterparty
\* sent, in order; the buffer and the bytes not read yet are exactly what
\* follows the frames of the messages returned (the beginning of it when the
\* stream was cut); read_message waits only while the buffer does not hold the
\* whole next message, and fails as closed only then, at the end of the stream
ReturnsWholeMessages ==
    read_pc \in {"idle", "awaiting", "closed"} =>
        LET k == Len(received)
            rest == BytesFrom(2 * k + 1)
        IN  /\ \A i \in 1..k : received[i] = wire[2 * i].pt
            /\ IF eof THEN IsPrefix(read_buffer \o inflight, rest)
                      ELSE read_buffer \o inflight = rest
            /\ read_pc \in {"awaiting", "closed"} => ~HoldsMessage(k)
            /\ read_pc = "closed" => (eof /\ inflight = <<>>)

\* C18: however the stream is split into chunks, read_message returns a
\* message only when the buffer holds its whole length frame and its whole
\* payload frame, removes exactly these bytes and keeps the rest, so the
\* messages returned are those sent, in order; at the end of the stream before
\* a message is complete it fails as closed and returns nothing
C18_ChunkingIndependent ==
    /\ []ReturnsWholeMessages
    /\ [][ (read_pc' = "closed" /\ read_pc # "closed")
           => (received' = received /\ read_buffer' = read_buffer) ]_vars

\* two messages were returned, one of them after its bytes came in several
\* chunks (its length frame was decrypted again), and bytes of a third are kept
C18_Witness ==
    /\ Len(received) = 2
    /\ aead_repeat # {}
    /\ read_pc = "idle"
    /\ read_buffer # <<>>

\* the stream ended inside a message: read_message failed as closed with the
\* part that arrived still in the buffer
C18_WitnessClosed ==
    /\ read_pc = "closed"
    /\ read_buffer # <<>>
    /\ Len(received) >= 1

-----------------------------------------------------------------------------
(* Failure of the dispatch loop: main_loop under aiosafe *)

\* main_loop, line 493: read_message raises, because the stream ended ("closed")
\* or a tag did not verify ("invalid_tag"); aiosafe catches it and stops the
\* event loop
MainLoopReadFails(how) ==
    /\ ~loop_stopped
    /\ main_pc = "loop"
    /\ read_pc' = how
    /\ eof' = (eof \/ how = "closed")
    /\ loop_stopped' = TRUE
    /\ main_pc' = "dead"
    /\ UNCHANGED <<_sn, _rn, sk, rk, s_ck, r_ck, read_buffer, inflight, wire, peer_tx,
                   read_locals, received, written, aead_ops, aead_repeat, calls,
                   initialized, inbound_n, main_msg, openVars, chanVars, payVars,
                   sideVars>>

NextTeardown ==
    \/ NextPay
    \/ \E how \in {"closed", "invalid_tag"} : MainLoopReadFails(how)

\* a payment in flight while the connection may fail
SpecTeardown == InitPay /\ [][NextTeardown]_vars

-----------------------------------------------------------------------------
(* Claims about the failure of the dispatch loop *)

\* the pay flow is suspended at an await, or one of its getter tasks is pending
PayFlowSuspended ==
    \/ pay_pc \notin {"idle", "start", "fulfilled", "failed", "raised"}
    \/ fulfill_coro.st = "pending"
    \/ failure_coro.st = "pending"

\* after the event loop was stopped nothing is dispatched, sent or saved and no
\* channel record changes
NothingAfterStop ==
    loop_stopped =>
        /\ inbound_n' = inbound_n
        /\ main_msg' = main_msg
        /\ written' = written
        /\ saved' = saved
        /\ channels' = channels

\* C19: once read_message failed or a handler raised, the flows in flight are
\* cancelled (none is left suspended, no getter task left pending), no
\* further message is dispatched and the channel records keep their last saved
\* state
C19_FailureCancelsFlows ==
    /\ [](loop_stopped => ~PayFlowSuspended)
    /\ [][NothingAfterStop]_vars

\* C19 without the cancellation: after the failure no message is dispatched and
\* the channel records keep their last saved state; the flows stay as they are
C19_FailureStopsEverything ==
    [][ NothingAfterStop /\ (loop_stopped => UNCHANGED <<pay_pc, fulfill_coro, failure_coro>>) ]_vars

\* the stream ended while pay waited for update_fulfill_htlc or
\* update_fail_htlc: the loop is stopped, pay and both getter tasks are where
\* they were
C19_Witness ==
    /\ loop_stopped
    /\ read_pc = "closed"
    /\ pay_pc = "race"
    /\ fulfill_coro.st = "pending"
    /\ failure_coro.st = "pending"
    /\ saved[KnownChan] # channels[KnownChan]

\* a handler raised while pay waited at an await
C19_WitnessHandlerRaised ==
    /\ loop_stopped
    /\ read_pc = "idle"
    /\ main_pc = "dead"
    /\ PayFlowSuspended

-----------------------------------------------------------------------------
(* The wire-message codec: calcexp, make_handler, decode_msg, gen_msg.      *)
(* A byte string is a sequence of numbers 0..255; a value handed to the     *)
(* codec is [int |-> n] or [bytes |-> b]; an outcome carries err, "none" or *)
(* the name of the exception raised.                                        *)

\* n zero bytes
Zeros(n) == [i \in 1..n |-> 0]

IntVal(n) == [int |-> n]
BytesVal(b) == [bytes |-> b]
IsBytes(x) == "bytes" \in DOMAIN x

RECURSIVE from_bytes(_)
\* int.from_bytes(b, 'big')
from_bytes(b) ==
    IF b = <<>> THEN 0 ELSE from_bytes(SubSeq(b, 1, Len(b) - 1)) * 256 + b[Len(b)]

RECURSIVE to_bytes(_, _)
\* n.to_bytes(length, 'big'): OverflowError when n is negative or does not fit,
\* ValueError when length is negative
to_bytes(n, length) ==
    IF length < 0 THEN [err |-> "ValueError", v |-> <<>>]
    ELSE IF n < 0 THEN [err |-> "OverflowError", v |-> <<>>]
    ELSE IF length = 0
         THEN [err |-> IF n = 0 THEN "none" ELSE "OverflowError", v |-> <<>>]
    ELSE IF n = 0 THEN [err |-> "none", v |-> Zeros(length)]
    ELSE LET r == to_bytes(n \div 256, length - 1)
         IN  [err |-> r.err, v |-> Append(r.v, n % 256)]

\* data[a:b] of Python, a and b of either sign
Slice(data, a, b) ==
    LET n == Len(data)
        clamp(i) == LET j == IF i < 0 THEN i + n ELSE i
                    IN  IF j < 0 THEN 0 ELSE IF j > n THEN n ELSE j
    IN  SubSeq(data, clamp(a) + 1, clamp(b))

\* the bytes int() skips around a number: tab, newline, vertical tab, form
\* feed, carriage return, space
AsciiSpace == {9, 10, 11, 12, 13, 32}
\* the digits "0".."9"
AsciiDigits == 48..57
\* "+" and "-"
AsciiSigns == {43, 45}
\* "_"
AsciiUnderscores == {95}

RECURSIVE StripLeft(_)
StripLeft(b) == IF b # <<>> /\ b[1] \in AsciiSpace THEN StripLeft(Tail(b)) ELSE b

RECURSIVE StripRight(_)
StripRight(b) ==
    IF b # <<>> /\ b[Len(b)] \in AsciiSpace THEN StripRight(SubSeq(b, 1, Len(b) - 1)) ELSE b

RECURSIVE DigitsValue(_, _)
\* the value of the decimal digits b (single underscores between digits
\* allowed) after the digits read so far gave acc; -1 when b is no such text
DigitsValue(b, acc) ==
    IF b = <<>> THEN acc
    ELSE IF b[1] \in AsciiDigits THEN DigitsValue(Tail(b), acc * 10 + (b[1] - 48))
    ELSE IF b[1] \in AsciiUnderscores /\ Len(b) > 1 /\ b[2] \in AsciiDigits
         THEN DigitsValue(Tail(b), acc)
    ELSE -1

\* int(b) for bytes b: the number b spells in ASCII, ValueError when it spells
\* none
int_of_text(b) ==
    LET t == StripRight(StripLeft(b))
        signed == t # <<>> /\ t[1] \in AsciiSigns
        d == IF signed THEN Tail(t) ELSE t
        v == IF d # <<>> /\ d[1] \in AsciiDigits THEN DigitsValue(d, 0) ELSE -1
    IN  IF v < 0 THEN [err |-> "ValueError", v |-> 0]
        ELSE [err |-> "none", v |-> IF signed /\ t[1] = 45 THEN 0 - v ELSE v]

\* handlesingle, lines 71-75: int(x), and int.from_bytes(x) when that fails
IntOf(x) ==
    IF IsBytes(x)
    THEN LET r == int_of_text(x.bytes)
         IN  IF r.err = "none" THEN r.v ELSE from_bytes(x.bytes)
    ELSE x.int

\* a term of a length or position expression
Lit(n) == [lit |-> n]
Var(name) == [var |-> name]

\* handlesingle(x, ma)
handlesingle(x, ma) ==
    IF "lit" \in DOMAIN x THEN [err |-> "none", v |-> x.lit]
    ELSE IF x.var \notin DOMAIN ma THEN [err |-> "KeyError", v |-> 0]
    ELSE [err |-> "none", v |-> IntOf(ma[x.var])]

RECURSIVE calcterms(_, _, _, _)
calcterms(op, terms, ma, acc) ==
    IF terms = <<>> THEN [err |-> "none", v |-> acc]
    ELSE LET r == handlesingle(Head(terms), ma)
         IN  IF r.err # "none" THEN r
             ELSE calcterms(op, Tail(terms), ma,
                            IF op = "*" THEN acc * r.v ELSE acc + r.v)

\* calcexp(exp, ma): exp is a product or a sum of terms
calcexp(exp, ma) == calcterms(exp.op, exp.terms, ma, IF exp.op = "*" THEN 1 ELSE 0)

Sum(terms) == [op |-> "+", terms |-> terms]

\* a field of a message: its name, position, length, and whether it is an
\* optional trailer ("feature")
Field(name, position, length, feature) ==
    [name |-> name, position |-> position, length |-> length, feature |-> feature]

\* lib/lightning.json, the messages used here, as json.loads reads them
structured ==
    [init |->
       [type |-> 16,
        payload |-> << Field("gflen", Sum(<<Lit(0)>>), Sum(<<Lit(2)>>), FALSE),
                       Field("globalfeatures", Sum(<<Lit(2)>>), Sum(<<Var("gflen")>>), FALSE),
                       Field("lflen", Sum(<<Lit(2), Var("gflen")>>), Sum(<<Lit(2)>>), FALSE),
                       Field("localfeatures", Sum(<<Lit(4), Var("gflen")>>),
                             Sum(<<Var("lflen")>>), FALSE) >>],
     ping |->
       [type |-> 18,
        payload |-> << Field("num_pong_bytes", Sum(<<Lit(0)>>), Sum(<<Lit(2)>>), FALSE),
                       Field("byteslen", Sum(<<Lit(2)>>), Sum(<<Lit(2)>>), FALSE),
                       Field("ignored", Sum(<<Lit(4)>>), Sum(<<Var("byteslen")>>), FALSE) >>],
     pong |->
       [type |-> 19,
        payload |-> << Field("byteslen", Sum(<<Lit(0)>>), Sum(<<Lit(2)>>), FALSE),
                       Field("ignored", Sum(<<Lit(2)>>), Sum(<<Var("byteslen")>>), FALSE) >>],
     channel_reestablish |->
       [type |-> 136,
        payload |-> << Field("channel_id", Sum(<<Lit(0)>>), Sum(<<Lit(32)>>), FALSE),
                       Field("next_local_commitment_number", Sum(<<Lit(32)>>),
                             Sum(<<Lit(8)>>), FALSE),
                       Field("next_remote_revocation_number", Sum(<<Lit(40)>>),
                             Sum(<<Lit(8)>>), FALSE),
                       Field("your_last_per_commitment_secret", Sum(<<Lit(48)>>),
                             Sum(<<Lit(32)>>), TRUE),
                       Field("my_current_per_commitment_point", Sum(<<Lit(80)>>),
                             Sum(<<Lit(33)>>), TRUE) >>]]

\* the message whose type code is typ, "" when there is none (message_types)
NameOfType(typ) ==
    LET names == {k \in DOMAIN structured : structured[k].type = typ}
    IN  IF names = {} THEN "" ELSE CHOOSE k \in names : TRUE

RECURSIVE handler(_, _, _)
\* one field f of make_handler's loop, lines 110-116, its position and length
\* worked out from the fields parsed so far
handler_field(fields, data, st, f, position, length) ==
    IF f.feature /\ st.pos = Len(data) THEN handler(Tail(fields), data, st)
    ELSE IF position.err # "none" THEN [st EXCEPT !.err = position.err]
    ELSE IF st.pos # position.v THEN [st EXCEPT !.err = "AssertionError"]
    ELSE IF length.err # "none" THEN [st EXCEPT !.err = length.err]
    ELSE handler(Tail(fields), data,
                 [ma |-> st.ma @@
                         (f.name :> BytesVal(Slice(data, st.pos, st.pos + length.v))),
                  pos |-> st.pos + length.v,
                  err |-> "none"])

\* make_handler's handler(data), lines 109-118, from the fields still to walk
\* and st = [ma, pos, err]
handler(fields, data, st) ==
    IF fields = <<>> \/ st.err # "none" THEN st
    ELSE handler_field(fields, data, st, Head(fields),
                       calcexp(Head(fields).position, st.ma),
                       calcexp(Head(fields).length, st.ma))

\* the closing assert of handler(data), line 117, and its return
handled(k, data, st) ==
    IF st.err # "none" THEN [err |-> st.err, name |-> k, ma |-> <<>>]
    ELSE IF st.pos # Len(data) THEN [err |-> "AssertionError", name |-> k, ma |-> <<>>]
    ELSE [err |-> "none", name |-> k, ma |-> st.ma]

\* message_types[typ](data), line 157: KeyError when no message has the type
message_types(k, data) ==
    IF k = "" THEN [err |-> "KeyError", name |-> "", ma |-> <<>>]
    ELSE handled(k, data,
                 handler(structured[k].payload, data,
                         [ma |-> <<>>, pos |-> 0, err |-> "none"]))

\* decode_msg(data): the name and the parsed fields, or the exception
decode_msg(data) ==
    message_types(NameOfType(from_bytes(Slice(data, 0, 2))), Slice(data, 2, Len(data)))

RECURSIVE encode(_, _, _)
\* lines 187-192: the bytes made of the field f are checked against leng and
\* appended
encode_append(fields, kwargs, st, f, leng, made) ==
    IF made.err = "ValueError" THEN [st EXCEPT !.err = "Exception"]
    ELSE IF made.err # "none" THEN [st EXCEPT !.err = made.err]
    ELSE IF Len(made.v) # leng THEN [st EXCEPT !.err = "Exception"]
    ELSE encode(Tail(fields), kwargs,
                [data |-> st.data \o made.v,
                 lengths |-> (f.name :> IntVal(Len(made.v))) @@ st.lengths,
                 err |-> "none"])

\* lines 170-186: the field f, its length worked out from the lengths of the
\* fields before it (first) and again with the arguments laid over them (leng)
encode_field(fields, kwargs, st, f, first, leng, param) ==
    IF f.feature THEN encode(Tail(fields), kwargs, st)
    ELSE IF first.err # "none" THEN [st EXCEPT !.err = first.err]
    ELSE encode_append(fields, kwargs, st, f, leng.v,
                       IF IsBytes(param) THEN [err |-> "none", v |-> param.bytes]
                       ELSE to_bytes(param.int, leng.v))

\* gen_msg, lines 169-192, from the fields still to walk and
\* st = [data, lengths, err]
encode(fields, kwargs, st) ==
    IF fields = <<>> \/ st.err # "none" THEN st
    ELSE encode_field(fields, kwargs, st, Head(fields),
                      calcexp(Head(fields).length, st.lengths),
                      calcexp(Head(fields).length, kwargs @@ st.lengths),
                      IF Head(fields).name \in DOMAIN kwargs
                      THEN kwargs[Head(fields).name] ELSE IntVal(0))

\* what gen_msg returns or raises
encoded(st) == [err |-> st.err, data |-> IF st.err = "none" THEN st.data ELSE <<>>]

\* gen_msg(msg_type, **kwargs): the bytes, or the exception
gen_msg(msg_type, kwargs) ==
    IF msg_type \notin DOMAIN structured THEN [err |-> "KeyError", data |-> <<>>]
    ELSE encoded(encode(structured[msg_type].payload, kwargs,
                        [data |-> to_bytes(structured[msg_type].type, 2).v,
                         lengths |-> <<>>, err |-> "none"]))

\* send_message(msg), lines 319-321, before anything is written:
\* decode_msg(msg) and len(msg).to_bytes(2, 'big') may raise
SendRaises(msg) ==
    decode_msg(msg).err # "none" \/ to_bytes(Len(msg), 2).err # "none"

\* the decoded message d as its reader sees it: integers for the fields of
\* two bytes, the bytes themselves for the others
Payload(d) ==
    LET fields == structured[d.name].payload
        two(f) == \E i \in 1..Len(fields) :
                      fields[i].name = f /\ fields[i].length = Sum(<<Lit(2)>>)
    IN  [type |-> d.name] @@
        [f \in DOMAIN d.ma |-> IF two(f) THEN from_bytes(d.ma[f].bytes) ELSE d.ma[f].bytes]

\* the message the bytes msg carry
WireRecord(msg) == Payload(decode_msg(msg))

-----------------------------------------------------------------------------
(* The ping: Peer.ping_if_required in Peer.main_loop *)

\* ping_if_required: the seconds after which a ping is due
PingInterval == 120
\* on_ping / ping_if_required: the pong bytes the peer asks for
PingPongBytes == 4

\* seconds a behaviour lasts
MaxElapsed == 250
\* messages the peer sends in one behaviour
MaxSent == 3

\* the clock when main_loop starts: time.time() counts from 1970, so more than
\* PingInterval seconds lie between 0 and it
StartTime == PingInterval + 1

\* self.send_message(msg) at the time now
SendAt(msg) ==
    /\ Len(sent_at) < MaxSent
    /\ send_message(msg)
    /\ sent_at' = Append(sent_at, now)

\* the clock advances by d seconds
Tick(d) ==
    /\ ~loop_stopped
    /\ now + d <= StartTime + MaxElapsed
    /\ now' = now + d
    /\ UNCHANGED <<transportVars, loopVars, openVars, chanVars, payVars, recvVars,
                   annVars, ping_time, sent_at>>

\* main_loop, line 485: init is sent
MainLoopSendInit ==
    /\ ~loop_stopped
    /\ main_pc = "send_init"
    /\ SendAt([type |-> "init", gflen |-> 0, lflen |-> 1])
    /\ main_pc' = "read_init"
    /\ UNCHANGED <<rxVars, initialized, loop_stopped, inbound_n, main_msg, openVars,
                   chanVars, payVars, recvVars, annVars, now, ping_time>>

\* ping_if_required sending the ping already when PingInterval seconds passed
PingIfRequired_at_interval ==
    /\ ~loop_stopped
    /\ main_pc = "loop"
    /\ IF now - ping_time >= PingInterval
       THEN /\ SendAt([type |-> "ping", num_pong_bytes |-> PingPongBytes,
                       byteslen |-> PingPongBytes])
            /\ ping_time' = now
       ELSE UNCHANGED <<_sn, sk, s_ck, written, aead_ops, calls, ping_time, sent_at>>
    /\ main_pc' = "reading"
    /\ UNCHANGED <<rxVars, initialized, loop_stopped, inbound_n, main_msg, openVars,
                   chanVars, payVars, recvVars, annVars, now>>

\* main_loop, line 492: ping_if_required(), then read_message is awaited
PingIfRequired ==
    /\ ~loop_stopped
    /\ main_pc = "loop"
    /\ IF now - ping_time > PingInterval
       THEN /\ SendAt([type |-> "ping", num_pong_bytes |-> PingPongBytes,
                       byteslen |-> PingPongBytes])
            /\ ping_time' = now
       ELSE UNCHANGED <<_sn, sk, s_ck, written, aead_ops, calls, ping_time, sent_at>>
    /\ main_pc' = "reading"
    /\ UNCHANGED <<rxVars, initialized, loop_stopped, inbound_n, main_msg, openVars,
                   chanVars, payVars, recvVars, annVars, now>>

\* main_loop is at an await of read_message
AtRead == main_pc \in {"read_init", "reading"}

\* send_message(pong) of on_ping: the pong is written, or what gen_msg or
\* send_message raised leaves process_message
SendPong(payload, pong) ==
    IF pong.err # "none" \/ SendRaises(pong.data)
    THEN /\ Dispatched(payload, TRUE)
         /\ UNCHANGED <<_sn, sk, s_ck, written, aead_ops, calls, sent_at>>
    ELSE /\ SendAt(WireRecord(pong.data))
         /\ Dispatched(payload, FALSE)

\* Peer.on_ping(payload): a pong of the size asked for is sent
RecvPing(payload) ==
    /\ CanDispatch
    /\ SendPong(payload, gen_msg("pong", [byteslen |-> IntVal(payload.num_pong_bytes)]))
    /\ UNCHANGED <<rxVars, openVars, chanVars, payVars, recvVars, annVars, now, ping_time>>

\* a flow of the peer sends a message (Peer.funding_locked)
FlowSends ==
    /\ ~loop_stopped
    /\ initialized
    /\ SendAt([type |-> "funding_locked", channel_id |-> KnownChan,
               next_per_commitment_point |-> SecondPoint])
    /\ UNCHANGED <<rxVars, loopVars, openVars, chanVars, payVars, recvVars, annVars,
                   now, ping_time>>

\* the pings the counterparty may send
PingPayloads ==
    {[type |-> "ping", num_pong_bytes |-> n, byteslen |-> 0] : n \in {0, PingPongBytes}}

\* main_loop after the handshake, at the time StartTime
InitPing ==
    /\ TransportInit(0, 0)
    /\ initialized = FALSE
    /\ loop_stopped = FALSE
    /\ main_pc = "send_init"
    /\ inbound_n = 0
    /\ main_msg = [type |-> "none"]
    /\ OpenIdle
    /\ ChanIdle
    /\ PayIdle
    /\ rcra_pc = "idle"
    /\ rcra_locals = [htlc |-> 0, expected_received_msat |-> 0]
    /\ announcement_signatures = NoQueues
    /\ ann_pc = "idle"
    /\ node_ids = <<1, 2>>
    /\ handler_locals = NoLocals
    /\ now = StartTime
    /\ ping_time = 0
    /\ sent_at = <<>>

NextPing ==
    \/ \E d \in {PingInterval \div 2, PingInterval \div 2 + 1} : Tick(d)
    \/ MainLoopSendInit
    \/ PingIfRequired
    \/ AtRead /\ RecvInit
    \/ AtRead /\ \E payload \in PingPayloads : RecvPing(payload)
    \/ FlowSends

\* the dispatch loop with its clock
SpecPing == InitPing /\ [][NextPing]_vars

-----------------------------------------------------------------------------
(* Claims about the ping *)

\* this step is ping_if_required
PingChecked == main_pc = "loop" /\ main_pc' = "reading"

\* this step sends a ping asking for PingPongBytes pong bytes
PingSent ==
    /\ Len(written') = Len(written) + 1
    /\ written'[Len(written')].msg =
           [type |-> "ping", num_pong_bytes |-> PingPongBytes, byteslen |-> PingPongBytes]

\* the time of the last send_message
LastSent == sent_at[Len(sent_at)]

\* C20: ping_if_required sends a ping (num_pong_bytes = 4, byteslen = 4) if and
\* only if more than PingInterval seconds passed since the peer last sent any
\* message
C20_PingIffNothingSent ==
    [][ PingChecked => (PingSent <=> now - LastSent > PingInterval) ]_vars

\* C20 with the time counted from the last ping_if_required that sent a ping
\* (from 0 when there was none): ping_if_required sends a ping (num_pong_bytes
\* = 4, byteslen = 4) if and only if more than PingInterval seconds passed since
\* ping_time, which it then sets to the clock; no other step sends a ping or
\* moves ping_time, whatever it sends
C20_PingIffNoPing ==
    [][ /\ PingChecked => /\ PingSent <=> now - ping_time > PingInterval
                          /\ ping_time' = IF PingSent THEN now ELSE ping_time
        /\ ~PingChecked => (~PingSent /\ ping_time' = ping_time) ]_vars

\* a ping was sent less than PingInterval seconds after the pong before it
C20_Witness ==
    /\ Len(written) >= 2
    /\ written[Len(written)].msg.type = "ping"
    /\ written[Len(written) - 1].msg.type = "pong"
    /\ sent_at[Len(sent_at)] - sent_at[Len(sent_at) - 1] < PingInterval
    /\ ping_time = now

\* PingInterval + 1 seconds after its last ping, and after nothing else, the
\* peer sent the next ping
C20_WitnessDue ==
    /\ Len(written) >= 2
    /\ written[Len(written)].msg.type = "ping"
    /\ written[Len(written) - 1].msg.type = "ping"
    /\ sent_at[Len(sent_at)] - sent_at[Len(sent_at) - 1] = PingInterval + 1

-----------------------------------------------------------------------------
(* The pong: Peer.on_ping for pings of every size *)

\* bounds of the sizes asked for: the first size whose two bytes spell a
\* number (tab, "0"), and the first size whose pong exceeds a length frame
TextSize == from_bytes(<<9, 48>>)
OverSize == 65536 - 4

\* the pings the counterparty may send, small and large
PongPayloads ==
    {[type |-> "ping", num_pong_bytes |-> n, byteslen |-> 0] :
        n \in {0, 1, 2, PingPongBytes, TextSize, OverSize}}

NextPong ==
    \/ MainLoopSendInit
    \/ PingIfRequired
    \/ AtRead /\ RecvInit
    \/ AtRead /\ \E payload \in PongPayloads : RecvPing(payload)

\* the dispatch loop answering pings of every size
SpecPong == InitPing /\ [][NextPong]_vars

\* the step is process_message of a ping
PingProcessed == inbound_n' = inbound_n + 1 /\ main_msg'.type = "ping"

\* the step sent exactly one pong, of the size the ping asked for, and the
\* dispatch loop goes on
PongSent ==
    /\ Len(written') = Len(written) + 1
    /\ LET pong == written'[Len(written')].msg
       IN  /\ pong.type = "pong"
           /\ pong.byteslen = main_msg'.num_pong_bytes
           /\ Len(pong.ignored) = main_msg'.num_pong_bytes
    /\ ~loop_stopped'
    /\ main_pc' = "loop"

\* C21: every received ping, whatever num_pong_bytes in 0..65535 it carries,
\* is answered by exactly one pong whose byteslen is num_pong_bytes and whose
\* ignored field has that many bytes, and the dispatch loop continues
C21_EveryPingAnswered == [][PingProcessed => PongSent]_vars

\* the two bytes of n spell no number, and the pong of n bytes fits a length
\* frame
PlainSize(n) ==
    /\ int_of_text(to_bytes(n, 2).v).err # "none"
    /\ n + 4 < 65536

\* C21, as the code has it: a ping is answered as claimed when the two bytes
\* of num_pong_bytes spell no ASCII number and the pong fits the two-byte
\* length frame; any other ping sends nothing and stops the event loop
C21_PlainPingAnswered ==
    [][PingProcessed =>
         IF PlainSize(main_msg'.num_pong_bytes) THEN PongSent
         ELSE written' = written /\ loop_stopped']_vars

\* C21: a ping asking for TextSize bytes was processed: no pong was sent and
\* the event loop is stopped
C21_Witness ==
    /\ main_msg.type = "ping"
    /\ main_msg.num_pong_bytes = TextSize
    /\ loop_stopped
    /\ \A i \in 1..Len(written) : written[i].msg.type # "pong"

\* C21: a ping asking for OverSize bytes was processed, with the same outcome
C21_WitnessOverSize ==
    /\ main_msg.type = "ping"
    /\ main_msg.num_pong_bytes = OverSize
    /\ loop_stopped
    /\ \A i \in 1..Len(written) : written[i].msg.type # "pong"

\* C21: a ping of a plain size was answered
C21_WitnessAnswered ==
    /\ main_msg.type = "ping"
    /\ main_msg.num_pong_bytes = PingPongBytes
    /\ ~loop_stopped
    /\ written # <<>>
    /\ written[Len(written)].msg.type = "pong"
    /\ Len(written[Len(written)].msg.ignored) = PingPongBytes

-----------------------------------------------------------------------------
(* Peer.process_message on the bytes read_message returned *)

\* the messages of the schema for which Peer has a method on_<name>
Handled == {"init", "ping", "channel_reestablish"}

\* process_message(message) once decode_msg gave d: decode_msg runs before the
\* try that catches the missing handler, so what it raises leaves
\* process_message
Processed(message, d) ==
    \/ /\ d.err # "none"
       /\ CanDispatch
       /\ Dispatched([type |-> d.name, raw |-> message], TRUE)
       /\ UNCHANGED <<transportVars, openVars, chanVars, payVars, sideVars>>
    \/ /\ d.err = "none"
       /\ d.name \notin Handled
       /\ CanDispatch
       /\ Dispatched(Payload(d), FALSE)
       /\ UNCHANGED <<transportVars, openVars, chanVars, payVars, sideVars>>
    \/ /\ d.err = "none"
       /\ d.name = "init"
       /\ RecvInit
    \/ /\ d.err = "none"
       /\ d.name = "ping"
       /\ RecvPing(Payload(d))

\* Peer.process_message(message)
ProcessMessage(message) == Processed(message, decode_msg(message))

\* a type code the schema does not have
UnknownType == 3

\* what the counterparty may send: an init, two pings, two pongs, and a message
\* of the type UnknownType
WireInputs ==
    { gen_msg("init", [gflen |-> IntVal(0), lflen |-> IntVal(0)]).data,
      gen_msg("ping", [num_pong_bytes |-> IntVal(0), byteslen |-> IntVal(0)]).data,
      gen_msg("ping", [num_pong_bytes |-> IntVal(PingPongBytes),
                       byteslen |-> IntVal(1)]).data,
      gen_msg("pong", [byteslen |-> IntVal(0)]).data,
      gen_msg("pong", [byteslen |-> IntVal(1)]).data,
      to_bytes(UnknownType, 2).v \o <<7>> }

NextWire ==
    \/ MainLoopSendInit
    \/ PingIfRequired
    \/ AtRead /\ \E message \in WireInputs : ProcessMessage(message)

\* the dispatch loop on the bytes of the counterparty
SpecWire == InitPing /\ [][NextWire]_vars

\* the step is process_message of a message for which Peer has no handler
UnhandledProcessed == inbound_n' = inbound_n + 1 /\ main_msg'.type \notin Handled

\* the step changed no queue, channel or tag, sent nothing, and the dispatch
\* loop goes on to the next read
Ignored ==
    /\ ~loop_stopped'
    /\ main_pc' = "loop"
    /\ UNCHANGED <<transportVars, openVars, chanVars, payVars, recvVars, annVars>>

\* C22: a received message without a handler, its type code in the schema or
\* not, is ignored: process_message returns, no queue, channel or tag changes,
\* nothing is sent, and the dispatch loop reads the next message
C22_UnhandledIgnored == [][UnhandledProcessed => Ignored]_vars

\* C22, as the code has it: a message without a handler is ignored when its
\* type code is in the schema; for any other type code decode_msg raises
\* KeyError and the event loop stops
C22_SchemaUnhandledIgnored ==
    [][UnhandledProcessed =>
         IF main_msg'.type \in DOMAIN structured THEN Ignored
         ELSE loop_stopped' /\ main_pc' = "dead"]_vars

\* C22: a message of the type UnknownType was processed and the event loop is
\* stopped
C22_Witness ==
    /\ main_msg.type \notin DOMAIN structured
    /\ "raw" \in DOMAIN main_msg
    /\ from_bytes(Slice(main_msg.raw, 0, 2)) = UnknownType
    /\ loop_stopped

\* C22: a pong, for which Peer has no handler, was processed and ignored
C22_WitnessIgnored ==
    /\ main_msg.type = "pong"
    /\ ~loop_stopped
    /\ main_pc = "loop"

-----------------------------------------------------------------------------
(* The amounts of a channel through Peer.pay *)

\* the fees an edge may ask: a base fee in msat and millionths of the amount
Fees == {<<0, 0>>, <<3, 4000>>}

\* the amounts paid, in msat
PaidAmounts == {0, 500}

\* the msat the counterparty holds of the channel when pay starts
RemoteAmounts == {0, 400}

\* a route of n edges that all ask the same fees
FeeRoute(n, base, millionths) ==
    [i \in 1..n |-> [Route(n)[i] EXCEPT !.channel_policy =
                        [fee_base_msat |-> base,
                         fee_proportional_millionths |-> millionths]]]

\* lines 579-603: the counterparty holds remote_msat of the capacity
SplitChannel(remote_msat) ==
    [StoredChannel(0, 0, TRUE, BuriedShortId) EXCEPT
        !.remote_state.amount_msat = remote_msat,
        !.local_state.amount_msat = StoredCapacity * 1000 - remote_msat]

InitAmounts ==
    PayInit({SplitChannel(r) : r \in RemoteAmounts},
            {[amount_msat |-> a, route |-> FeeRoute(MaxHops, fee[1], fee[2])] :
                a \in PaidAmounts, fee \in Fees})

\* one payment with fees over a channel of a given split
SpecAmounts == InitAmounts /\ [][NextPay]_vars

\* the local and the remote amount of chan sum to its capacity
SumsToCapacity(chan) ==
    chan.local_state.amount_msat + chan.remote_state.amount_msat
        = chan.constraints.capacity * 1000

\* the amount paid and the fees of the route
PaidWithFees ==
    pay_args.amount_msat + total_fee(Tail(pay_args.route), pay_args.amount_msat)

\* the htlc-less commitments pay signed
BareCommitments ==
    {i \in 1..Len(written) : "signature" \in DOMAIN written[i].msg}

C23_WitnessFailed ==
    /\ pay_pc = "failed"
    /\ PaidWithFees > pay_args.amount_msat
    /\ saved[KnownChan] = channels[KnownChan]

-----------------------------------------------------------------------------
(* Peer.main_loop from its start, with the flows that await initialized *)

\* main_loop after the handshake; channel_establishment_flow and
\* reestablish_channel of a stored channel are scheduled and await initialized
InitStartup ==
    /\ TransportInit(0, 0)
    /\ initialized = FALSE
    /\ loop_stopped = FALSE
    /\ main_pc = "send_init"
    /\ inbound_n = 0
    /\ main_msg = [type |-> "none"]
    /\ channel_accepted = NoQueues
    /\ funding_signed = NoQueues
    /\ open_pc = "start"
    /\ open_args = [funding_sat |-> 1, push_msat |-> 0, temp_channel_id |-> 1]
    /\ open_locals = [error |-> "none"]
    /\ wallet_txs = <<>>
    /\ broadcasts = <<>>
    /\ channels = (KnownChan :> StoredChannel(0, 0, TRUE, BuriedShortId))
    /\ channel_state = (KnownChan :> "OPENING")
    /\ saved = channels
    /\ channel_db = {}
    /\ channel_reestablished = <<>>
    /\ reest_pc = "start"
    /\ reest_suspended = FALSE
    /\ fl_calls = 0
    /\ PayIdle
    /\ rcra_pc = "idle"
    /\ rcra_locals = [htlc |-> 0, expected_received_msat |-> 0]
    /\ announcement_signatures = NoQueues
    /\ ann_pc = "idle"
    /\ node_ids = <<1, 2>>
    /\ handler_locals = NoLocals
    /\ now = StartTime
    /\ ping_time = 0
    /\ sent_at = <<>>

NextStartup ==
    \/ MainLoopSendInit
    \/ PingIfRequired
    \/ AtRead /\ \E message \in WireInputs : ProcessMessage(message)
    \/ OpenStart
    \/ ReestablishStart

\* the start of a connection: the dispatch loop and the two lifecycle flows
SpecStartup == InitStartup /\ [][NextStartup]_vars

\* the messages written so far of the types in types
WrittenOf(types) == {i \in 1..Len(written) : written[i].msg.type \in types}

\* no lifecycle flow has sent open_channel or channel_reestablish while
\* initialized is not set
FlowsWait ==
    WrittenOf({"open_channel", "channel_reestablish"}) # {} => initialized

\* C24: initialized is set only after our init was sent and the counterparty's
\* init was received and dispatched; no lifecycle flow sends open_channel or
\* channel_reestablish before that
C24_InitializedAfterInits ==
    /\ []FlowsWait
    /\ [][~initialized /\ initialized' =>
            /\ WrittenOf({"init"}) # {}
            /\ main_msg'.type = "init"]_vars

\* C24, as the code has it: initialized is set after our init was sent and the
\* first message, of whatever type, was read and dispatched without raising;
\* no lifecycle flow sends open_channel or channel_reestablish before that
C24_InitializedAfterFirstMessage ==
    /\ []FlowsWait
    /\ [][~initialized /\ initialized' =>
            /\ WrittenOf({"init"}) # {}
            /\ inbound_n = 0 /\ inbound_n' = 1
            /\ ~loop_stopped']_vars

\* C24: the first message was a ping; initialized is set and
\* reestablish_channel has sent channel_reestablish, no init received
C24_Witness ==
    /\ initialized
    /\ inbound_n = 1
    /\ main_msg.type = "ping"
    /\ WrittenOf({"channel_reestablish"}) # {}

\* C24: the first message was the counterparty's init, and both flows sent
C24_WitnessInit ==
    /\ initialized
    /\ inbound_n = 1
    /\ main_msg.type = "init"
    /\ WrittenOf({"channel_reestablish"}) # {}
    /\ WrittenOf({"open_channel"}) # {}

-----------------------------------------------------------------------------
(* Peer.handshake: the three acts of the initiator.                         *)
(* Keys, hashes and shared secrets are sequences of numbers; a byte on the  *)
(* stream is <<kind, content, index>>, so that bytes of different origin    *)
(* differ.                                                                  *)

\* sha256(data): an injective tagging
sha256(data) == <<256, Len(data)>> \o data

\* the private keys in play: ours, the responder's static and ephemeral key,
\* and a key of somebody else
MyPrivkey == 2
ResponderStatic == 3
ResponderEphemeral == 5
OtherKey == 6

\* privkey_to_pubkey(priv): the public key stands for its private key
privkey_to_pubkey(priv) == <<priv>>

\* create_ephemeral_key(privkey), lines 264-266: the key pair of privkey itself
create_ephemeral_key(privkey) == <<privkey, privkey_to_pubkey(privkey)>>

\* get_ecdh(priv, pub): the same secret from either side
get_ecdh(priv, pub) ==
    IF priv < pub[1] THEN <<priv, pub[1]>> ELSE <<pub[1], priv>>

\* the size bytes of kind kind and content content
StreamBytes(kind, content, size) == [i \in 1..size |-> <<kind, content, i>>]

\* a public key on the stream: 33 bytes
PubkeyLen == 33
\* the handshake messages: act 1 and act 2 have 50 bytes
ActLen == 50

\* hs.handshake_version, and a version byte that is not it
VersionBytes(v) == StreamBytes("v", <<v>>, 1)

\* aead_encrypt(k, nonce, associated_data, data) of data, size bytes long
aead_encrypt(k, nonce, associated_data, data, size) ==
    StreamBytes("c", <<Len(k)>> \o k \o <<nonce, Len(associated_data)>>
                     \o associated_data \o data, size + TagLen)

\* HandshakeState.update(data)
update(hs, data) == [hs EXCEPT !.h = sha256(@ \o data)]

\* HandshakeState(responder_pub), lines 197-206
HandshakeState(responder_pub) ==
    update(update([h |-> sha256(<<78>>), ck |-> sha256(<<78>>)], <<108>>), responder_pub)

\* what bytes on the stream stand for in a hash
Content(bytes) == IF bytes = <<>> THEN <<>> ELSE bytes[1][2]

\* hs.ck becomes the first half of get_bolt8_hkdf(hs.ck, ss); temp_k is the
\* second
mixed(hs, ss) ==
    [h |-> hs.h, ck |-> get_bolt8_hkdf(hs.ck, ss)[1],
     temp_k |-> get_bolt8_hkdf(hs.ck, ss)[2]]

\* act1_initiator_message, lines 249-253: hs after the key agreement
act1_keys(hs, my_privkey, responder_pub) ==
    mixed(update(hs, create_ephemeral_key(my_privkey)[2]),
          get_ecdh(create_ephemeral_key(my_privkey)[1], responder_pub))

\* act1_initiator_message, lines 254-259: the message and hs after it
act1_sealed(hs, epub, c) ==
    [hs |-> update(hs, Content(c)),
     msg |-> VersionBytes(0) \o StreamBytes("e", epub, PubkeyLen) \o c]

act1_initiator_message(hs, my_privkey) ==
    act1_sealed(act1_keys(hs, my_privkey, privkey_to_pubkey(ResponderStatic)),
                create_ephemeral_key(my_privkey)[2],
                aead_encrypt(act1_keys(hs, my_privkey,
                                       privkey_to_pubkey(ResponderStatic)).temp_k,
                             0,
                             act1_keys(hs, my_privkey,
                                       privkey_to_pubkey(ResponderStatic)).h,
                             <<>>, 0))

\* the 33 bytes are a public key
IsPubkey(bytes) ==
    /\ Len(bytes) = PubkeyLen
    /\ \E p \in {MyPrivkey, ResponderStatic, ResponderEphemeral, OtherKey} :
          bytes = StreamBytes("e", privkey_to_pubkey(p), PubkeyLen)

\* handshake, lines 357-361: hs after the key agreement of act 2
act2_keys(hs, my_privkey, alice_epub) ==
    mixed(update(hs, Content(alice_epub)),
          get_ecdh(create_ephemeral_key(my_privkey)[1], Content(alice_epub)))

\* handshake, lines 353-355 without the check of the version byte
act2_asserts_any_version(rspns) == Len(rspns) = ActLen

\* handshake, lines 353-355: the asserts on the response
act2_asserts(rspns) ==
    /\ Len(rspns) = ActLen
    /\ SubSeq(rspns, 1, 1) = VersionBytes(0)

\* handshake, lines 365-373: act 3 and the transport keys, from hs2 (after
\* hs.update(tag)), hs3 (after hs.update(c)) and hs4 (after the last key
\* agreement)
act3_done(hs4, c) ==
    [err |-> "none",
     msg |-> VersionBytes(0) \o c \o aead_encrypt(hs4.temp_k, 0, hs4.h, <<>>, 0),
     ck |-> hs4.ck,
     sk |-> get_bolt8_hkdf(hs4.ck, <<>>)[1],
     rk |-> get_bolt8_hkdf(hs4.ck, <<>>)[2]]

act3_sealed(hs2, my_privkey, alice_epub, c) ==
    act3_done(mixed(update(hs2, Content(c)), get_ecdh(my_privkey, Content(alice_epub))),
              c)

act3(hs2, my_privkey, alice_epub) ==
    act3_sealed(hs2, my_privkey, alice_epub,
                aead_encrypt(hs2.temp_k, 1, hs2.h, privkey_to_pubkey(my_privkey),
                             PubkeyLen))

HandshakeFailed(err) == [err |-> err, msg |-> <<>>, ck |-> <<>>, sk |-> <<>>, rk |-> <<>>]

\* handshake, lines 356-363: the tag is opened with temp_k2
act2_opened(hs2, my_privkey, alice_epub, tag) ==
    IF tag # aead_encrypt(hs2.temp_k, 0, hs2.h, <<>>, 0) THEN HandshakeFailed("InvalidTag")
    ELSE act3(update(hs2, Content(tag)), my_privkey, alice_epub)

\* handshake, lines 353-379, on the response rspns to act 1
handshake(hs, my_privkey, rspns) ==
    IF ~act2_asserts(rspns) THEN HandshakeFailed("AssertionError")
    ELSE IF ~IsPubkey(SubSeq(rspns, 2, 1 + PubkeyLen)) THEN HandshakeFailed("ValueError")
    ELSE act2_opened(act2_keys(hs, my_privkey, SubSeq(rspns, 2, 1 + PubkeyLen)),
                     my_privkey, SubSeq(rspns, 2, 1 + PubkeyLen),
                     SubSeq(rspns, 2 + PubkeyLen, Len(rspns)))

\* hs after act 1 was written
AfterAct1 ==
    act1_initiator_message(HandshakeState(privkey_to_pubkey(ResponderStatic)),
                           MyPrivkey).hs

\* act 2 of a responder who holds the static key static, with the ephemeral
\* key ephemeral, the version byte v, and extra bytes more or fewer than 50
Act2Response(static, ephemeral, v, extra) ==
    LET hs1 == mixed(update(HandshakeState(privkey_to_pubkey(ResponderStatic)),
                            privkey_to_pubkey(MyPrivkey)),
                     get_ecdh(static, privkey_to_pubkey(MyPrivkey)))
        hs1c == update(hs1, Content(aead_encrypt(hs1.temp_k, 0, hs1.h, <<>>, 0)))
        hs2 == mixed(update(hs1c, privkey_to_pubkey(ephemeral)),
                     get_ecdh(ephemeral, privkey_to_pubkey(MyPrivkey)))
        msg == VersionBytes(v)
               \o StreamBytes("e", privkey_to_pubkey(ephemeral), PubkeyLen)
               \o aead_encrypt(hs2.temp_k, 0, hs2.h, <<>>, 0)
    IN  IF extra < 0 THEN SubSeq(msg, 1, Len(msg) + extra)
        ELSE msg \o StreamBytes("x", <<>>, extra)

\* what may answer act 1: the responder, a responder with another version
\* byte, somebody without the responder's static key, and responses of 49 and
\* of 51 bytes
Act2Responses ==
    { Act2Response(ResponderStatic, ResponderEphemeral, 0, 0),
      Act2Response(ResponderStatic, ResponderEphemeral, 1, 0),
      Act2Response(OtherKey, ResponderEphemeral, 0, 0),
      Act2Response(ResponderStatic, ResponderEphemeral, 0, -1),
      Act2Response(ResponderStatic, ResponderEphemeral, 0, 1) }

\* handshake, lines 348-351: act 1 is written
HandshakeAct1 ==
    /\ ~loop_stopped
    /\ main_pc = "handshake"
    /\ written' = Append(written,
           [msg |-> [type |-> "act1",
                     raw |-> act1_initiator_message(
                                 HandshakeState(privkey_to_pubkey(ResponderStatic)),
                                 MyPrivkey).msg]])
    /\ main_pc' = "act2"
    /\ UNCHANGED <<_sn, _rn, sk, rk, s_ck, r_ck, read_buffer, inflight, eof, wire,
                   peer_tx, read_pc, read_locals, received, aead_ops, aead_repeat,
                   calls, initialized, loop_stopped, inbound_n, main_msg, openVars,
                   chanVars, payVars, sideVars>>

\* the other end of the stream answers act 1
RemoteAct2(rspns) ==
    /\ main_pc = "act2"
    /\ inflight = <<>>
    /\ ~eof
    /\ inflight' = rspns
    /\ UNCHANGED <<_sn, _rn, sk, rk, s_ck, r_ck, read_buffer, eof, wire, peer_tx,
                   read_pc, read_locals, received, written, aead_ops, aead_repeat,
                   calls, engineVars>>

\* handshake once reader.read(2**10) returned rspns: it raises, or act 3 is
\* written and the transport keys and counters are set
HandshakeRan(rspns, out) ==
    /\ main_msg' = [type |-> "act2", raw |-> rspns]
    /\ IF out.err # "none"
       THEN /\ loop_stopped' = TRUE
            /\ main_pc' = "dead"
            /\ UNCHANGED <<_sn, _rn, sk, rk, s_ck, r_ck, written>>
       ELSE /\ loop_stopped' = loop_stopped
            /\ main_pc' = "send_init"
            /\ written' = Append(written, [msg |-> [type |-> "act3", raw |-> out.msg]])
            /\ sk' = out.sk
            /\ rk' = out.rk
            /\ _sn' = 0
            /\ _rn' = 0
            /\ r_ck' = out.ck
            /\ s_ck' = out.ck

\* handshake, lines 352-379: reader.read(2**10) returns the n bytes that have
\* arrived (none at the end of the stream)
HandshakeAct2(n) ==
    /\ ~loop_stopped
    /\ main_pc = "act2"
    /\ n <= Len(inflight)
    /\ IF n = 0 THEN eof /\ inflight = <<>> ELSE n <= ReadMax
    /\ HandshakeRan(SubSeq(inflight, 1, n), handshake(AfterAct1, MyPrivkey,
                                                      SubSeq(inflight, 1, n)))
    /\ inflight' = SubSeq(inflight, n + 1, Len(inflight))
    /\ UNCHANGED <<read_buffer, eof, wire, peer_tx, read_pc, read_locals, received,
                   aead_ops, aead_repeat, calls, initialized, inbound_n, openVars,
                   chanVars, payVars, sideVars>>

\* the stream ends before act 2
HandshakeClose ==
    /\ main_pc = "act2"
    /\ inflight = <<>>
    /\ ~eof
    /\ eof' = TRUE
    /\ UNCHANGED <<_sn, _rn, sk, rk, s_ck, r_ck, read_buffer, inflight, wire, peer_tx,
                   read_pc, read_locals, received, written, aead_ops, aead_repeat,
                   calls, engineVars>>

\* a Peer before main_loop runs: no transport key is set
InitHandshake ==
    /\ _sn = -1
    /\ _rn = -1
    /\ sk = <<>>
    /\ rk = <<>>
    /\ s_ck = <<>>
    /\ r_ck = <<>>
    /\ read_buffer = <<>>
    /\ inflight = <<>>
    /\ eof = FALSE
    /\ wire = <<>>
    /\ peer_tx = [n |-> 0, k |-> <<>>, ck |-> <<>>]
    /\ read_pc = "idle"
    /\ read_locals = [rn_l |-> 0, rk_l |-> <<>>, rn_m |-> 0, rk_m |-> <<>>]
    /\ received = <<>>
    /\ written = <<>>
    /\ aead_ops = [send |-> <<>>, recv |-> <<>>]
    /\ aead_repeat = {}
    /\ calls = [send |-> 0, recv |-> 0]
    /\ initialized = FALSE
    /\ loop_stopped = FALSE
    /\ main_pc = "handshake"
    /\ inbound_n = 0
    /\ main_msg = [type |-> "none"]
    /\ OpenIdle
    /\ ChanIdle
    /\ PayIdle
    /\ rcra_pc = "idle"
    /\ rcra_locals = [htlc |-> 0, expected_received_msat |-> 0]
    /\ announcement_signatures = NoQueues
    /\ ann_pc = "idle"
    /\ node_ids = <<1, 2>>
    /\ handler_locals = NoLocals
    /\ now = StartTime
    /\ ping_time = 0
    /\ sent_at = <<>>

\* the first part of a response that arrives on its own
PartLen == 20

NextHandshake ==
    \/ HandshakeAct1
    \/ \E rspns \in Act2Responses : RemoteAct2(rspns)
    \/ HandshakeClose
    \/ \E n \in {0, PartLen, Len(inflight)} : HandshakeAct2(n)
    \/ MainLoopSendInit
    \/ PingIfRequired
    \/ AtRead /\ \E message \in WireInputs : ProcessMessage(message)

\* main_loop from the handshake on
SpecHandshake == InitHandshake /\ [][NextHandshake]_vars

\* the response raw has exactly 50 bytes, the version byte 0, and a tag made
\* with the key of act 2 over the transcript
GoodResponse(raw) ==
    /\ Len(raw) = ActLen
    /\ raw[1] = <<"v", <<0>>, 1>>
    /\ LET hs2 == act2_keys(AfterAct1, MyPrivkey, SubSeq(raw, 2, 1 + PubkeyLen))
       IN  SubSeq(raw, 2 + PubkeyLen, ActLen) = aead_encrypt(hs2.temp_k, 0, hs2.h, <<>>, 0)

\* the transport keys are set as handshake sets them
KeysInstalled ==
    /\ s_ck # <<>>
    /\ r_ck = s_ck
    /\ sk = get_bolt8_hkdf(s_ck, <<>>)[1]
    /\ rk = get_bolt8_hkdf(s_ck, <<>>)[2]

\* no transport key is set
NoKeys == sk = <<>> /\ rk = <<>> /\ s_ck = <<>> /\ r_ck = <<>> /\ _sn = -1 /\ _rn = -1

\* C25: handshake sends act 3 and installs sk, rk, both chaining keys and both
\* counters at 0 only if the response to act 1 has exactly 50 bytes, the
\* version byte 0 and a tag that authenticates; otherwise it fails, act 3 is
\* never sent and no transport message is sent or read on the connection
C25_Act3OnlyAfterGoodAct2 ==
    /\ [][main_pc = "act2" /\ main_pc' # "act2" =>
            IF GoodResponse(main_msg'.raw)
            THEN /\ KeysInstalled'
                 /\ _sn' = 0 /\ _rn' = 0
                 /\ written' = Append(written, written'[Len(written')])
                 /\ written'[Len(written')].msg.type = "act3"
            ELSE /\ loop_stopped'
                 /\ main_pc' = "dead"
                 /\ written' = written
                 /\ NoKeys']_vars
    /\ [](WrittenOf({"act3"}) = {} =>
            /\ NoKeys
            /\ WrittenOf({"act1"}) = 1..Len(written)
            /\ inbound_n = 0
            /\ received = <<>>)
    /\ [](loop_stopped /\ NoKeys => WrittenOf({"act3"}) = {})

\* C25: the responder's act 2 was read whole: act 3 is written, the keys are
\* set, and the first transport message has been sent
C25_Witness ==
    /\ KeysInstalled
    /\ WrittenOf({"act3"}) # {}
    /\ WrittenOf({"init"}) # {}
    /\ Len(aead_ops.send) = 2
    /\ aead_ops.send[1].key = sk
    /\ aead_ops.send[1].nonce = 0

\* C25: an act 2 with another version byte was read: the handshake failed,
\* nothing but act 1 was written
C25_WitnessVersion ==
    /\ main_msg.type = "act2"
    /\ Len(main_msg.raw) = ActLen
    /\ main_msg.raw[1] = <<"v", <<1>>, 1>>
    /\ loop_stopped
    /\ NoKeys
    /\ Len(written) = 1

\* C25: an act 2 whose tag was made without the responder's static key
C25_WitnessTag ==
    /\ main_msg.type = "act2"
    /\ Len(main_msg.raw) = ActLen
    /\ main_msg.raw[1] = <<"v", <<0>>, 1>>
    /\ loop_stopped
    /\ NoKeys

-----------------------------------------------------------------------------
(* gen_msg and decode_msg, one after the other, on the messages of the schema *)

\* the arguments that give a value to some of the fields of vals, each value
\* one of those vals offers for the field
Kwargs(vals) ==
    UNION { {k \in [D -> UNION {vals[f] : f \in D}] : \A f \in D : k[f] \in vals[f]} :
            D \in SUBSET DOMAIN vals }

\* the largest length a length field is given
MaxFieldLen == 2

\* what gen_msg is called with: a message name and keyword arguments, lengths
\* and variable-length fields given or not, as integers or as bytes
CodecInputs ==
    LET lens == {IntVal(n) : n \in 0..MaxFieldLen}
        text == {BytesVal(Zeros(n)) : n \in 0..MaxFieldLen} \cup {IntVal(8)}
    IN  {[type |-> "init", kwargs |-> k] :
            k \in Kwargs([gflen |-> {IntVal(0)}, lflen |-> lens, localfeatures |-> text])}
        \cup
        {[type |-> "pong", kwargs |-> k] :
            k \in Kwargs([byteslen |-> lens \cup {IntVal(TextSize)}, ignored |-> text])}
        \cup
        {[type |-> "ping", kwargs |-> k] :
            k \in Kwargs([num_pong_bytes |-> {IntVal(PingPongBytes)}, byteslen |-> lens])}
        \cup
        {[type |-> "channel_reestablish", kwargs |-> k] :
            k \in Kwargs([next_local_commitment_number |-> {IntVal(1)},
                          your_last_per_commitment_secret |-> {IntVal(1)}])}

\* gen_msg(name, **kwargs) is called
GenMsg ==
    /\ main_pc = "gen_msg"
    /\ handler_locals' = [enc |-> gen_msg(main_msg.type, main_msg.kwargs)]
    /\ main_pc' = IF gen_msg(main_msg.type, main_msg.kwargs).err = "none"
                  THEN "decode_msg" ELSE "raised"
    /\ UNCHANGED <<transportVars, initialized, loop_stopped, inbound_n, main_msg,
                   openVars, chanVars, payVars, recvVars, announcement_signatures,
                   ann_pc, node_ids, pingVars>>

\* decode_msg is called on what gen_msg returned
DecodeMsg ==
    /\ main_pc = "decode_msg"
    /\ handler_locals' = [enc |-> handler_locals.enc,
                          dec |-> decode_msg(handler_locals.enc.data)]
    /\ main_pc' = "decoded"
    /\ UNCHANGED <<transportVars, initialized, loop_stopped, inbound_n, main_msg,
                   openVars, chanVars, payVars, recvVars, announcement_signatures,
                   ann_pc, node_ids, pingVars>>

InitCodec ==
    /\ TransportInit(0, 0)
    /\ initialized = FALSE
    /\ loop_stopped = FALSE
    /\ main_pc = "gen_msg"
    /\ inbound_n = 0
    /\ main_msg \in CodecInputs
    /\ OpenIdle
    /\ ChanIdle
    /\ PayIdle
    /\ rcra_pc = "idle"
    /\ rcra_locals = [htlc |-> 0, expected_received_msat |-> 0]
    /\ announcement_signatures = NoQueues
    /\ ann_pc = "idle"
    /\ node_ids = <<1, 2>>
    /\ handler_locals = NoLocals
    /\ now = 0
    /\ ping_time = 0
    /\ sent_at = <<>>

NextCodec == GenMsg \/ DecodeMsg

\* the codec on the inputs CodecInputs
SpecCodec == InitCodec /\ [][NextCodec]_vars

\* the field f of the decoded map ma holds the value x given to gen_msg, an
\* integer compared as the big-endian bytes of the field's length
Recovered(ma, f, x) ==
    /\ f \in DOMAIN ma
    /\ IF IsBytes(x) THEN ma[f].bytes = x.bytes
       ELSE to_bytes(x.int, Len(ma[f].bytes)) = [err |-> "none", v |-> ma[f].bytes]

\* decode_msg on the bytes of gen_msg succeeded, with the name and the fields
\* gen_msg was given
RoundTrip ==
    /\ handler_locals.dec.err = "none"
    /\ handler_locals.dec.name = main_msg.type
    /\ \A f \in DOMAIN main_msg.kwargs :
          Recovered(handler_locals.dec.ma, f, main_msg.kwargs[f])

\* C26: for every message of the schema and every field assignment gen_msg
\* accepts, lengths and variable-length fields given or not,
\* decode_msg(gen_msg(name, fields)) succeeds, returns the name and recovers
\* the fields
C26_RoundTrip == main_pc = "decoded" => RoundTrip

\* the fields of the message name that give the length of another field
LengthFields(name) ==
    {f \in {structured[name].payload[i].name : i \in 1..Len(structured[name].payload)} :
        \E i \in 1..Len(structured[name].payload) :
            Var(f) \in {structured[name].payload[i].length.terms[j] :
                          j \in 1..Len(structured[name].payload[i].length.terms)}}

\* the optional trailers of the message name
FeatureFields(name) ==
    {structured[name].payload[i].name :
        i \in {j \in 1..Len(structured[name].payload) : structured[name].payload[j].feature}}

\* every length field is given, as a value whose bytes spell no number, and no
\* optional trailer is given
LengthsGiven ==
    /\ LengthFields(main_msg.type) \subseteq DOMAIN main_msg.kwargs
    /\ \A f \in LengthFields(main_msg.type) :
          int_of_text(to_bytes(main_msg.kwargs[f].int, 2).v).err # "none"
    /\ FeatureFields(main_msg.type) \cap DOMAIN main_msg.kwargs = {}

\* C26, as the code has it: the round trip holds for the assignments that give
\* every length field (a value whose two bytes spell no ASCII number) and no
\* optional trailer
C26_RoundTripWithLengths == main_pc = "decoded" /\ LengthsGiven => RoundTrip

\* C26: gen_msg accepted init with localfeatures = 8 and no lengths, and
\* decode_msg raised on its bytes
C26_Witness ==
    /\ main_pc = "decoded"
    /\ main_msg = [type |-> "init", kwargs |-> [localfeatures |-> IntVal(8)]]
    /\ handler_locals.enc.err = "none"
    /\ handler_locals.dec.err = "AssertionError"

\* C26: gen_msg accepted init with every length given, and decode_msg
\* recovered the fields
C26_WitnessRecovered ==
    /\ main_pc = "decoded"
    /\ main_msg = [type |-> "init",
                   kwargs |-> [gflen |-> IntVal(0), lflen |-> IntVal(1),
                               localfeatures |-> IntVal(8)]]
    /\ handler_locals.enc.data = <<0, 16, 0, 0, 0, 1, 8>>
    /\ RoundTrip

-----------------------------------------------------------------------------
(* Claims about on_funding_locked *)

\* this step dispatches a funding_locked for the known channel
FundingLockedDispatched ==
    /\ inbound_n' = inbound_n + 1
    /\ main_msg'.type = "funding_locked"
    /\ main_msg'.channel_id = KnownChan

\* C27: the first funding_locked received for a known channel makes the
\* remote state's next point its current point and the payload's point its
\* next point, sets funding_locked_received and saves the channel; a further
\* funding_locked leaves the local and the remote state as they were
C27_FirstFundingLockedRotates ==
    [][ FundingLockedDispatched
        => IF ~channels[KnownChan].local_state.funding_locked_received
           THEN /\ channels'[KnownChan].remote_state.current_per_commitment_point =
                       channels[KnownChan].remote_state.next_per_commitment_point
                /\ channels'[KnownChan].remote_state.next_per_commitment_point =
                       main_msg'.next_per_commitment_point
                /\ channels'[KnownChan].local_state.funding_locked_received
                /\ saved'[KnownChan] = channels'[KnownChan]
                /\ ~loop_stopped'
           ELSE /\ channels'[KnownChan].local_state = channels[KnownChan].local_state
                /\ channels'[KnownChan].remote_state = channels[KnownChan].remote_state
                /\ ~loop_stopped'
      ]_vars

\* C27: two funding_locked were dispatched for a channel stored without the
\* lock: the points were rotated once and the record was saved
C27_Witness ==
    /\ main_msg.type = "funding_locked"
    /\ main_msg.channel_id = KnownChan
    /\ inbound_n = 2
    /\ ~FutureDone(channel_reestablished, KnownChan)
    /\ reest_pc = "idle"
    /\ channels[KnownChan].remote_state.current_per_commitment_point = StoredNextPoint
    /\ channels[KnownChan].remote_state.next_per_commitment_point = LockedPoint
    /\ channels[KnownChan].local_state.funding_locked_received
    /\ saved[KnownChan] = channels[KnownChan]
    /\ channel_state[KnownChan] = "OPEN"

\* C27: a funding_locked was dispatched for a channel stored with the lock
\* received: its points are the stored ones
C27_WitnessFurther ==
    /\ main_msg.type = "funding_locked"
    /\ main_msg.channel_id = KnownChan
    /\ channels[KnownChan].remote_state.current_per_commitment_point = StoredCurrentPoint
    /\ channels[KnownChan].remote_state.next_per_commitment_point = StoredNextPoint
    /\ channels[KnownChan].local_state.funding_locked_received

-----------------------------------------------------------------------------
(* Claims about the tag REESTABLISHING *)

\* reestablish_channel sent our channel_reestablish and waits for the future
\* that a valid channel_reestablish of the counterparty sets
ReestablishInFlight ==
    /\ reest_pc = "await"
    /\ ~FutureDone(channel_reestablished, KnownChan)

\* C28: while a channel's reestablish is in flight its tag stays
\* REESTABLISHING: no interleaved inbound message moves it to OPEN before the
\* counterparty's channel_reestablish has been validated
C28_ReestablishingWhileInFlight ==
    ReestablishInFlight => channel_state[KnownChan] = "REESTABLISHING"

\* C28, as the code has it: while the reestablish is in flight the tag leaves
\* REESTABLISHING only for OPEN, and only in the dispatch of a funding_locked
\* for the channel or in a call of Peer.funding_locked
C28_OnlyFundingLockedOpens ==
    [][ (ReestablishInFlight /\ ReestablishInFlight'
           /\ channel_state'[KnownChan] # channel_state[KnownChan])
        => /\ channel_state[KnownChan] = "REESTABLISHING"
           /\ channel_state'[KnownChan] = "OPEN"
           /\ FundingLockedDispatched \/ fl_calls' = fl_calls + 1
      ]_vars

\* C28: a funding_locked dispatched while the reestablish was in flight
\* marked the channel OPEN
C28_Witness ==
    /\ ReestablishInFlight
    /\ channel_state[KnownChan] = "OPEN"
    /\ main_msg.type = "funding_locked"
    /\ main_msg.channel_id = KnownChan
    /\ fl_calls = 0
    /\ Len(written) = 1
    /\ written[1].msg.type = "channel_reestablish"

-----------------------------------------------------------------------------
(* Claims about the two threads writing chan.local_state *)

\* a field of local_state that was written is still written after this step:
\* no code path clears was_announced, funding_locked_received or a stored
\* current_commitment_signature
LocalStateKept ==
    LET before == channels[KnownChan].local_state
        after  == channels'[KnownChan].local_state
    IN  /\ before.was_announced => after.was_announced
        /\ before.funding_locked_received => after.funding_locked_received
        /\ before.current_commitment_signature # 0 => after.current_commitment_signature # 0

\* C29: no update of a channel's local_state is lost when on_network_update
\* interleaves with a handler of the event loop that replaces local_state: the
\* resulting local_state carries the fields written by both
C29_NoLostUpdate == [][LocalStateKept]_vars

\* C29, as the code has it: an update is lost only in the step in which
\* on_commitment_signed stores the replacement of a local_state it read before
\* on_network_update ran; every other step keeps what was written
C29_LostOnlyByStaleReplacement ==
    [][ (main_pc = "handler"
           => handler_locals.local_state.was_announced =
                  channels[KnownChan].local_state.was_announced)
        => LocalStateKept ]_vars

\* C29: on_network_update ran between the read and the write of
\* on_commitment_signed, handle_announcements was scheduled and sent our
\* signatures, and the stored local_state says the channel was not announced
C29_Witness ==
    /\ main_msg.type = "commitment_signed"
    /\ main_pc = "loop"
    /\ ann_pc \in {"start", "await", "done"}
    /\ ~channels[KnownChan].local_state.was_announced
    /\ ~saved[KnownChan].local_state.was_announced
    /\ channels[KnownChan].local_state.current_commitment_signature # 0

-----------------------------------------------------------------------------
(* Claims about the two nonces of a message *)

\* the messages a direction seals or opens under one key: two nonces each
MessagesPerKey == RotateAt \div 2

\* the length frame and the payload frame of a message are processed under one
\* key, with an even nonce and the next one
FramePair(n_l, k_l, n_m, k_m) ==
    /\ n_l % 2 = 0
    /\ n_m = n_l + 1
    /\ k_m = k_l

\* the key of the direction is another one after the message whose payload
\* frame has nonce n_m exactly when that message is the 500th under its key
RotatesAfter(n_m, k_m, k_next) ==
    (k_next # k_m) <=> (n_m + 1 = 2 * MessagesPerKey)

\* C30: every message consumes two consecutive nonces of its direction, the
\* first for the length frame and the second for the payload frame, both under
\* the same key; each counter is even whenever send_message or read_message
\* starts, and a direction's key changes exactly after every 500th message
C30_TwoNoncesOneKey ==
    /\ _sn % 2 = 0
    /\ _rn % 2 = 0
    /\ \A i \in 1..Len(written) :
          /\ FramePair(written[i].lc.nonce, written[i].lc.key,
                       written[i].c.nonce, written[i].c.key)
          /\ RotatesAfter(written[i].c.nonce, written[i].c.key,
                          IF i < Len(written) THEN written[i + 1].lc.key ELSE sk)
          /\ i < Len(written) =>
                written[i + 1].lc.nonce = (written[i].c.nonce + 1) % RotateAt
    /\ calls.recv > 0 =>
          /\ FramePair(read_locals.rn_l, read_locals.rk_l,
                       read_locals.rn_m, read_locals.rk_m)
          /\ RotatesAfter(read_locals.rn_m, read_locals.rk_m, rk)
          /\ _rn = (read_locals.rn_m + 1) % RotateAt

\* C30: the 500th message of each direction went out and came in with nonces
\* 998 and 999 under the handshake key, the direction's key is the rotated one,
\* and the next message was sent with nonce 0 under it
C30_Witness ==
    /\ \E i \in 1..(Len(written) - 1) :
          /\ written[i].lc.nonce = RotateAt - 2
          /\ written[i].c.nonce = RotateAt - 1
          /\ written[i].c.key = HandshakeKeys[1]
          /\ written[i + 1].lc.nonce = 0
          /\ written[i + 1].lc.key = RotatedKey(HandshakeKeys[1])
    /\ read_locals.rn_m = RotateAt - 1
    /\ read_locals.rk_m = HandshakeKeys[2]
    /\ rk = RotatedKey(HandshakeKeys[2])
    /\ read_pc = "idle"
    /\ Len(received) > 0

-----------------------------------------------------------------------------
(* The amounts of the channel record the open flow builds *)

\* the push_msat an open of funding_sat is called with: nothing, all of the
\* funding, one millisatoshi more than the funding
PushAmounts(funding_sat) == {0, funding_sat * 1000, funding_sat * 1000 + 1}

\* the open flow is called with a push_msat up to and over the funding
InitPushed ==
    OpenInit(UNION {{[funding_sat |-> f, push_msat |-> p, temp_channel_id |-> 1] :
                        p \in PushAmounts(f)} : f \in 1..MaxFundingSat})

\* one open flow, push_msat within the funding or over it
SpecPushed == InitPushed /\ [][NextOpen]_vars

\* the open flow has built its channel record
RecordBuilt == "m" \in DOMAIN open_locals

\* C31: every channel record the open flow constructs has a local and a
\* remote amount that are both non-negative and sum to funding_sat * 1000, and
\* an open with push_msat greater than funding_sat * 1000 never produces a
\* channel record or a funding_created message
C31_AmountsWithinFunding ==
    /\ RecordBuilt =>
          /\ open_locals.m.local_state.amount_msat >= 0
          /\ open_locals.m.remote_state.amount_msat >= 0
          /\ open_locals.m.local_state.amount_msat
                + open_locals.m.remote_state.amount_msat = open_args.funding_sat * 1000
    /\ open_args.push_msat > open_args.funding_sat * 1000 =>
          ~RecordBuilt /\ FundingCreatedSent = {}

\* C31, as the code has it: the two amounts of the record sum to
\* funding_sat * 1000, the remote amount is push_msat, and the local amount is
\* negative exactly when push_msat is greater than funding_sat * 1000
C31_AmountsSumToFunding ==
    RecordBuilt =>
        /\ open_locals.m.remote_state.amount_msat = open_args.push_msat
        /\ open_locals.m.local_state.amount_msat
              + open_locals.m.remote_state.amount_msat = open_args.funding_sat * 1000
        /\ open_locals.m.local_state.amount_msat < 0
              <=> open_args.push_msat > open_args.funding_sat * 1000

\* C31: an open with push_msat one over the funding sent funding_created and
\* returned a channel whose local amount is -1 msat
C31_Witness ==
    /\ open_pc = "done"
    /\ open_args.push_msat = open_args.funding_sat * 1000 + 1
    /\ open_locals.m.local_state.amount_msat = -1
    /\ FundingCreatedSent # {}
    /\ broadcasts # <<>>

\* C31: an open pushing all of the funding returned a channel whose local
\* amount is 0
C31_WitnessAllPushed ==
    /\ open_pc = "done"
    /\ open_args.push_msat = open_args.funding_sat * 1000
    /\ open_locals.m.local_state.amount_msat = 0

-----------------------------------------------------------------------------
(* Claims about the ephemeral key of the handshake *)

\* the public key E that the act 1 message raw carries in clear
EphemeralIn(raw) == Content(SubSeq(raw, 2, 1 + PubkeyLen))

\* the static public key that the act 3 message raw carries sealed: the data
\* of its first ciphertext
StaticIn(raw) ==
    <<Content(SubSeq(raw, 2, 1 + PubkeyLen + TagLen))[
          Len(Content(SubSeq(raw, 2, 1 + PubkeyLen + TagLen)))]>>

\* the act 1 another handshake of this node with the same responder writes
SecondHandshakeAct1 ==
    act1_initiator_message(HandshakeState(privkey_to_pubkey(ResponderStatic)),
                           MyPrivkey).msg

\* C32: the ephemeral key of acts 1 to 3 is distinct from the initiator's
\* static key: the public key E sent in clear in act 1 never equals the static
\* public key that act 3 sends encrypted, and two handshakes by the same node
\* do not reuse the same ephemeral key
C32_EphemeralNotStatic ==
    \A i \in WrittenOf({"act1"}) :
        /\ EphemeralIn(written[i].msg.raw) # privkey_to_pubkey(MyPrivkey)
        /\ \A j \in WrittenOf({"act3"}) :
              EphemeralIn(written[i].msg.raw) # StaticIn(written[j].msg.raw)
        /\ EphemeralIn(written[i].msg.raw) # EphemeralIn(SecondHandshakeAct1)

\* C32, as the code has it: the public key act 1 carries in clear is the
\* static public key of the node, the one act 3 seals
C32_EphemeralIsStatic ==
    \A i \in WrittenOf({"act1"}) :
        /\ EphemeralIn(written[i].msg.raw) = privkey_to_pubkey(MyPrivkey)
        /\ \A j \in WrittenOf({"act3"}) :
              EphemeralIn(written[i].msg.raw) = StaticIn(written[j].msg.raw)

\* C32: act 1 and act 3 were written, and the key act 1 shows in clear is the
\* key act 3 seals
C32_Witness ==
    /\ WrittenOf({"act1"}) = {1}
    /\ WrittenOf({"act3"}) = {2}
    /\ EphemeralIn(written[1].msg.raw) = StaticIn(written[2].msg.raw)
    /\ StaticIn(written[2].msg.raw) = privkey_to_pubkey(MyPrivkey)
    /\ KeysInstalled

=============================================================================
